---- MODULE Spec2Model ----
(***************************************************************************)
(* Capture-to-event pipeline of the BPSR meter: the Sniffer's per-flow     *)
(* stream reassembler (sniffer.js) and the PacketProcessor's envelope      *)
(* parser, Notify router and entity/event dispatcher (algo/packet.js).     *)
(*                                                                         *)
(* Buffers are sequences of bytes (0..255).  A Long (uuid, damage value)   *)
(* is a natural number; the inputs keep it below 2^31, where the masks,    *)
(* shifts and Long.toNumber of the code are exact.  An absent (null or     *)
(* undefined) field is Null; present numeric fields are non-negative.      *)
(* Strings are sequences of character codes.                               *)
(***************************************************************************)
EXTENDS Integers, Sequences, FiniteSets, TLC

VARIABLES
    running,          \* Sniffer.running
    cap,              \* Sniffer.cap: Null, or the index of the open device
    buffers,          \* Sniffer.buffers: flow key -> retained bytes
    hasProcessor,     \* Sniffer.processor is set
    devices,          \* what Cap.deviceList() returns on this host
    openHandles,      \* capture handles opened and not yet closed
    currentUserUuid,  \* module-level currentUserUuid of packet.js
    notices,          \* number of 'Got player UUID!' info lines logged
    sink,             \* userDataManager calls made by the last callback
    stream,           \* per flow: every byte appended since the flow began
    emitted,          \* per flow: frames passed to processPacket, with offsets
    skips,            \* per flow: offsets skipped one byte at a time
    lastFrames,       \* frames passed to processPacket by the last callback
    prevUuid,         \* currentUserUuid before the last callback
    npackets,         \* packet callbacks run so far
    ncalls,           \* start/stop/switchDevice calls made so far
    errors,           \* number of error lines logged by processPacket
    lastError,        \* what the last start/switchDevice call threw
    depth,            \* deepest re-entry of processPacket in the last callback
    quiet,            \* per flow: time units since its last payload (up to IdleTimeout)
    selectedDevice,   \* globalSettings.selectedDevice of the server
    live,             \* whether the last switchAdapter call returned true
    status,           \* HTTP status of the last POST /api/adapter response
    pending,          \* bytes of the run's byte stream the wire has yet to deliver
    loop,             \* the callback in progress, iteration by iteration (step runs)
    pc                \* "idle", "ready"/"done" (single-frame runs), "flow" (error runs)

vars == << running, cap, buffers, hasProcessor, devices, openHandles,
           currentUserUuid, notices, sink, stream, emitted, skips,
           lastFrames, prevUuid, npackets, ncalls, errors, lastError, depth,
           quiet, selectedDevice, live, status, pending, loop, pc >>

----------------------------------------------------------------------------
(* Bounds of the model *)

MaxPackets == 2
MaxCalls == 2

(* time units a flow may stay silent before its buffer is due for reclaim *)
IdleTimeout == 2

----------------------------------------------------------------------------
(* null / undefined *)
Null == -1

(* no callback in progress *)
NoLoop ==
    [acc |-> <<>>, offset |-> 0, frameLen |-> 0, frames |-> <<>>, stack |-> <<>>, height |-> 0,
     done |-> TRUE]

(* a deviceIndex that is no integer (undefined, null, a string) *)
Undefined == -2

(* Long.ZERO, the initial currentUserUuid *)
LongZero == 0

Pow16 == 65536

----------------------------------------------------------------------------
(* BinaryReader and Buffer primitives.  Offsets are 0-based as in the code; *)
(* a read past the end throws (RangeError), subarray clamps.                *)

Min(a, b) == IF a < b THEN a ELSE b

CanRead(buf, off, n) == off >= 0 /\ off <= Len(buf) /\ n <= Len(buf) - off

(* The model checker's integers stop at 2^31 - 1: an unsigned 32-bit value  *)
(* with its top bit set is read as U32Top.  Every comparison the code makes *)
(* on such a value (a size against 6 and 2 MiB, a method id against the     *)
(* known ids, a length against a buffer's length) has the same outcome.     *)
U32Top == 127 * 16777216 + 16777215

U32Of(b0, b1, b2, b3) ==
    IF b0 >= 128 THEN U32Top ELSE b0 * 16777216 + b1 * 65536 + b2 * 256 + b3

ReadUInt32BE(buf, off) == U32Of(buf[off + 1], buf[off + 2], buf[off + 3], buf[off + 4])

ReadUInt32LE(buf, off) == U32Of(buf[off + 4], buf[off + 3], buf[off + 2], buf[off + 1])

ReadUInt16BE(buf, off) == buf[off + 1] * 256 + buf[off + 2]

(* readBigUInt64BE, as the pair << high 32 bits, low 32 bits >> *)
ReadUInt64BE(buf, off) == << ReadUInt32BE(buf, off), ReadUInt32BE(buf, off + 4) >>

(* buffer.subarray(from, to): both ends clamped to the buffer *)
Subarray(buf, from, to) ==
    SubSeq(buf, Min(from, Len(buf)) + 1, Min(to, Len(buf)))

(* big-endian encodings, used to build inputs *)
U16Bytes(v) == << (v \div 256) % 256, v % 256 >>
U32Bytes(v) == << (v \div 16777216) % 256, (v \div 65536) % 256, (v \div 256) % 256, v % 256 >>
U32BytesLE(v) == << v % 256, (v \div 256) % 256, (v \div 65536) % 256, (v \div 16777216) % 256 >>
U64Bytes(hi, lo) == U32Bytes(hi) \o U32Bytes(lo)

----------------------------------------------------------------------------
(* zlib.zstdDecompressSync, as far as the pipeline depends on it.  A        *)
(* compressed block is a Zstandard frame: the magic 28 B5 2F FD, the frame  *)
(* header descriptor 0x20 (single segment), the content size, the content.  *)
(* The content transform is an involution on bytes; any other input throws. *)

ZstdHeader(n) == << 40, 181, 47, 253, 32, n >>

ZstdCompress(b) == ZstdHeader(Len(b)) \o [i \in 1..Len(b) |-> 255 - b[i]]

ZstdValid(z) == Len(z) >= 6 /\ SubSeq(z, 1, 6) = ZstdHeader(Len(z) - 6)

ZstdDecompress(z) == [i \in 1..(Len(z) - 6) |-> 255 - z[i + 6]]

----------------------------------------------------------------------------
(* Enumerations and tables of packet.js *)

MessageType == [None |-> 0, Call |-> 1, Notify |-> 2, Return |-> 3,
                Echo |-> 4, FrameUp |-> 5, FrameDown |-> 6]

NotifyMethod == [SyncNearEntities |-> 6, SyncContainerData |-> 21,
                 SyncContainerDirtyData |-> 22, SyncServerTime |-> 43,
                 SyncNearDeltaInfo |-> 45, SyncToMeDeltaInfo |-> 46]

AttrType == [AttrName |-> 1, AttrId |-> 10, AttrProfessionId |-> 220,
             AttrFightPoint |-> 10030, AttrLevel |-> 10000, AttrRankLevel |-> 10060,
             AttrHp |-> 11310, AttrMaxHp |-> 11320, AttrElementFlag |-> 6581612,
             AttrReductionLevel |-> 6580589, AttrReduntionId |-> 7302245]

(* the tracked service id 0x0000000063335342, as << high, low >> *)
ServiceUuid == << 0, 1664308034 >>

(* pb.EDamageType.Heal *)
EDamageTypeHeal == 2

(* The profession names are Chinese strings in the code; each is written   *)
(* here as the ASCII label of its ProfessionType key (the default, the     *)
(* "unknown profession" string, as "Unknown_Profession").                  *)
getProfessionNameFromId(professionId) ==
    CASE professionId = 21 -> "ProfessionType_21"
      [] professionId = 22 -> "ProfessionType_22"
      [] professionId = 23 -> "ProfessionType_23"
      [] professionId = 24 -> "ProfessionType_24"
      [] professionId = 25 -> "ProfessionType_25"
      [] professionId = 26 -> "ProfessionType_26"
      [] OTHER -> "Unknown_Profession"

(* a variant whose table starts at 1 *)
getDamageElementFromOne(elementFlag) ==
    CASE elementFlag = 1 -> "None"
      [] elementFlag = 2 -> "Fire"
      [] elementFlag = 3 -> "Ice"
      [] elementFlag = 4 -> "Poison"
      [] elementFlag = 5 -> "Thunder"
      [] elementFlag = 6 -> "Wind"
      [] elementFlag = 7 -> "Rock"
      [] elementFlag = 8 -> "Light"
      [] elementFlag = 9 -> "Dark"
      [] OTHER -> "Unknown"

getDamageElement(elementFlag) ==
    CASE elementFlag = 0 -> "None"
      [] elementFlag = 1 -> "Fire"
      [] elementFlag = 2 -> "Ice"
      [] elementFlag = 3 -> "Poison"
      [] elementFlag = 4 -> "Thunder"
      [] elementFlag = 5 -> "Wind"
      [] elementFlag = 6 -> "Rock"
      [] elementFlag = 7 -> "Light"
      [] elementFlag = 8 -> "Dark"
      [] OTHER -> "Unknown"

----------------------------------------------------------------------------
(* Entity classification *)

Low16(uuid) == uuid % Pow16

(* a variant that masks with 0xff *)
isUuidPlayerLow8(uuid) == uuid # Null /\ uuid % 256 = 1

isUuidPlayer(uuid) == uuid # Null /\ Low16(uuid) = 1

isUuidMonster(uuid) == uuid # Null /\ Low16(uuid) = 2

(* a variant that shifts by 8 *)
ShiftRight8(uuid) == uuid \div 256

(* uuid.shiftRight(16) *)
ShiftRight16(uuid) == uuid \div Pow16

MkUuid(shortId, low16) == shortId * Pow16 + low16

----------------------------------------------------------------------------
(* Strings: Buffer.toString() (a byte that is not ASCII decodes to U+FFFD), *)
(* String.trim() and the string constants of the code.                      *)

BufferToString(b) == [i \in 1..Len(b) |-> IF b[i] < 128 THEN b[i] ELSE 65533]

IsSpace(c) == c \in {9, 10, 11, 12, 13, 32}

RECURSIVE TrimLeft(_)
TrimLeft(str) ==
    IF str # <<>> /\ IsSpace(Head(str)) THEN TrimLeft(Tail(str)) ELSE str

RECURSIVE TrimRight(_)
TrimRight(str) ==
    IF str # <<>> /\ IsSpace(str[Len(str)])
    THEN TrimRight(SubSeq(str, 1, Len(str) - 1)) ELSE str

Trim(str) == TrimRight(TrimLeft(str))

(* 'Unknown' *)
StrUnknown == << 85, 110, 107, 110, 111, 119, 110 >>

(* ReadString(reader) on a reader at offset 0: u32 LE length, 4 bytes, the *)
(* bytes, 4 bytes.  ok is FALSE when one of the reads throws.              *)
ReadString(data) ==
    IF ~CanRead(data, 0, 8) THEN [ok |-> FALSE, str |-> <<>>]
    ELSE LET length == ReadUInt32LE(data, 0) IN
         IF length > Len(data) \/ ~CanRead(data, 8 + length, 4)
         THEN [ok |-> FALSE, str |-> <<>>]
         ELSE [ok |-> TRUE, str |-> BufferToString(Subarray(data, 8, 8 + length))]

(* monster_names.json: raw name -> localized name, <<>> when there is none *)
monsterNames(name) == IF name = << 71, 111, 98 >> THEN << 71, 79, 66, 76, 73, 78 >> ELSE <<>>

----------------------------------------------------------------------------
(* Attribute patching.  An attribute is [AttrId, HasData, AttrData]; a sink *)
(* call is a record whose op names the userDataManager method.  A decode    *)
(* error inside one attribute is caught inside that attribute's case.       *)

PlayerAttrCalls(playerUid, attr) ==
    IF ~attr.HasData THEN <<>>
    ELSE CASE attr.AttrId = AttrType.AttrName ->
                LET r == ReadString(attr.AttrData) IN
                IF r.ok /\ Trim(r.str) # <<>>
                THEN << [op |-> "setName", uid |-> playerUid, name |-> Trim(r.str)] >>
                ELSE <<>>
           [] attr.AttrId = AttrType.AttrProfessionId ->
                IF CanRead(attr.AttrData, 0, 4)
                THEN << [op |-> "setProfession", uid |-> playerUid,
                         professionName |-> getProfessionNameFromId(ReadUInt32BE(attr.AttrData, 0))] >>
                ELSE <<>>
           [] attr.AttrId = AttrType.AttrFightPoint ->
                IF CanRead(attr.AttrData, 0, 4)
                THEN << [op |-> "setFightPoint", uid |-> playerUid,
                         value |-> ReadUInt32BE(attr.AttrData, 0)] >>
                ELSE <<>>
           [] attr.AttrId = AttrType.AttrLevel ->
                IF CanRead(attr.AttrData, 0, 4)
                THEN << [op |-> "setLevel", uid |-> playerUid,
                         value |-> ReadUInt32BE(attr.AttrData, 0)] >>
                ELSE <<>>
           [] OTHER -> <<>>

(* a variant without the try inside the cases: the first attribute whose   *)
(* data cannot be read ends the loop                                       *)
RECURSIVE PlayerAttrsFromStopOnError(_, _, _)
PlayerAttrsFromStopOnError(playerUid, attrs, i) ==
    IF i > Len(attrs) THEN <<>>
    ELSE IF /\ attrs[i].HasData
            /\ attrs[i].AttrId \in {AttrType.AttrName, AttrType.AttrProfessionId,
                                   AttrType.AttrFightPoint, AttrType.AttrLevel}
            /\ IF attrs[i].AttrId = AttrType.AttrName THEN ~ReadString(attrs[i].AttrData).ok
               ELSE ~CanRead(attrs[i].AttrData, 0, 4)
         THEN <<>>
    ELSE PlayerAttrCalls(playerUid, attrs[i]) \o PlayerAttrsFromStopOnError(playerUid, attrs, i + 1)

RECURSIVE PlayerAttrsFrom(_, _, _)
PlayerAttrsFrom(playerUid, attrs, i) ==
    IF i > Len(attrs) THEN <<>>
    ELSE PlayerAttrCalls(playerUid, attrs[i]) \o PlayerAttrsFrom(playerUid, attrs, i + 1)

ProcessPlayerAttrs(playerUid, attrs) == PlayerAttrsFrom(playerUid, attrs, 1)

(* the locals of _processEnemyAttrs before its loop *)
EnemyLocals == [calls |-> <<>>, name |-> StrUnknown, hp |-> 0, maxHp |-> 0,
                reductionLevel |-> 0, reductionId |-> 0, elementFlag |-> 0]

(* one iteration of the loop of _processEnemyAttrs *)
EnemyAttrStep(enemyUid, e, attr) ==
    IF ~attr.HasData THEN e
    ELSE LET ok4 == CanRead(attr.AttrData, 0, 4)
             v == ReadUInt32BE(attr.AttrData, 0)
         IN
         CASE attr.AttrId = AttrType.AttrName ->
                LET r == ReadString(attr.AttrData)
                    t == Trim(r.str)
                    n == IF t # <<>> /\ monsterNames(t) # <<>> THEN monsterNames(t) ELSE t
                IN IF r.ok
                   THEN [e EXCEPT !.name = n,
                                  !.calls = Append(@, [op |-> "setEnemyName", uid |-> enemyUid, name |-> n])]
                   ELSE e
           [] attr.AttrId = AttrType.AttrId ->
                IF ok4 THEN [e EXCEPT !.calls = Append(@, [op |-> "setEnemyId", uid |-> enemyUid, id |-> v])]
                ELSE e
           [] attr.AttrId = AttrType.AttrHp ->
                IF ok4 THEN [e EXCEPT !.hp = v,
                                      !.calls = Append(@, [op |-> "setEnemyHp", uid |-> enemyUid, hp |-> v])]
                ELSE e
           [] attr.AttrId = AttrType.AttrMaxHp ->
                IF ok4 THEN [e EXCEPT !.maxHp = v,
                                      !.calls = Append(@, [op |-> "setEnemyMaxHp", uid |-> enemyUid, maxHp |-> v])]
                ELSE e
           [] attr.AttrId = AttrType.AttrReductionLevel ->
                IF ok4 THEN [e EXCEPT !.reductionLevel = v,
                                      !.calls = Append(@, [op |-> "setEnemyReductionLevel", uid |-> enemyUid, value |-> v])]
                ELSE e
           [] attr.AttrId = AttrType.AttrReduntionId ->
                IF ok4 THEN [e EXCEPT !.reductionId = v,
                                      !.calls = Append(@, [op |-> "setEnemyReductionId", uid |-> enemyUid, value |-> v])]
                ELSE e
           [] attr.AttrId = AttrType.AttrElementFlag ->
                IF ok4 THEN [e EXCEPT !.elementFlag = v,
                                      !.calls = Append(@, [op |-> "setEnemyElement", uid |-> enemyUid,
                                                           element |-> getDamageElement(v)])]
                ELSE e
           [] OTHER -> e

RECURSIVE EnemyAttrsFrom(_, _, _, _)
EnemyAttrsFrom(enemyUid, e, attrs, i) ==
    IF i > Len(attrs) THEN e
    ELSE EnemyAttrsFrom(enemyUid, EnemyAttrStep(enemyUid, e, attrs[i]), attrs, i + 1)

(* a variant that registers the monster whatever its name *)
ProcessEnemyAttrsByMaxHp(enemyUid, attrs) ==
    LET e == EnemyAttrsFrom(enemyUid, EnemyLocals, attrs, 1) IN
    IF e.maxHp > 0
    THEN Append(e.calls, [op |-> "addEnemy", uid |-> enemyUid, name |-> e.name, hp |-> e.hp,
                          maxHp |-> e.maxHp, reductionLevel |-> e.reductionLevel,
                          reductionId |-> e.reductionId, elementFlag |-> e.elementFlag])
    ELSE e.calls

ProcessEnemyAttrs(enemyUid, attrs) ==
    LET e == EnemyAttrsFrom(enemyUid, EnemyLocals, attrs, 1) IN
    IF e.name # StrUnknown /\ e.maxHp > 0
    THEN Append(e.calls, [op |-> "addEnemy", uid |-> enemyUid, name |-> e.name, hp |-> e.hp,
                          maxHp |-> e.maxHp, reductionLevel |-> e.reductionLevel,
                          reductionId |-> e.reductionId, elementFlag |-> e.elementFlag])
    ELSE e.calls

----------------------------------------------------------------------------
(* _processAoiSyncDelta.  A delta is [Uuid, Attrs, Events]; an event holds  *)
(* the SyncDamageInfo fields, Null when absent (IsMiss, IsDead: 0 or 1).    *)

OrZero(v) == IF v = Null THEN 0 ELSE v

(* (TypeFlag & 1) === 1, false when TypeFlag is null *)
isCrit(typeFlag) == typeFlag # Null /\ typeFlag % 2 = 1

(* a variant that tests bit 1 (value 2) *)
isCauseLuckyBit1(typeFlag) == typeFlag # Null /\ (typeFlag \div 2) % 2 = 1

(* (TypeFlag & 0b100) === 0b100, false when TypeFlag is null *)
isCauseLucky(typeFlag) == typeFlag # Null /\ (typeFlag \div 4) % 2 = 1

(* the object handed to processDamageToPlayer / processPlayerDamage *)
DamageFields(ev) ==
    [source |-> OrZero(ev.DamageSource),
     value |-> IF ev.Value # Null THEN ev.Value ELSE OrZero(ev.LuckyValue),
     luckyValue |-> OrZero(ev.LuckyValue),
     isCrit |-> isCrit(ev.TypeFlag),
     isCauseLucky |-> isCauseLucky(ev.TypeFlag),
     isHeal |-> ev.Type = EDamageTypeHeal,
     isMiss |-> ev.IsMiss = 1,
     isDead |-> ev.IsDead = 1,
     isLucky |-> ev.LuckyValue # Null,
     hpLessenValue |-> OrZero(ev.HpLessenValue),
     damageElement |-> getDamageElement(ev.Property),
     skillId |-> ev.OwnerId]

(* TopSummonerId || AttackerUuid: a Long object is truthy whatever its value *)
EffectiveAttacker(ev) ==
    IF ev.TopSummonerId # Null THEN ev.TopSummonerId ELSE ev.AttackerUuid

(* a variant that takes LuckyValue when Value is null or zero *)
DamageEventCallsValueOrLucky(targetUuid, ev) ==
    LET attackerUuid == EffectiveAttacker(ev)
        damage == IF ev.Value # Null /\ ev.Value # 0 THEN ev.Value ELSE OrZero(ev.LuckyValue)
        d == [DamageFields(ev) EXCEPT !.value = damage]
    IN
    IF ev.OwnerId = Null \/ ev.OwnerId = 0 THEN <<>>
    ELSE IF attackerUuid = Null THEN <<>>
    ELSE IF damage = 0 THEN <<>>
    ELSE IF isUuidPlayer(targetUuid)
         THEN IF isUuidPlayer(attackerUuid) THEN <<>>
              ELSE << [op |-> "processDamageToPlayer",
                       uid |-> ShiftRight16(targetUuid), damage |-> d] >>
    ELSE IF isUuidMonster(targetUuid)
         THEN IF isUuidPlayer(attackerUuid)
              THEN << [op |-> "processPlayerDamage",
                       uid |-> ShiftRight16(attackerUuid), damage |-> d] >>
              ELSE <<>>
    ELSE <<>>

(* the body of the loop over damageEvents.Events: the calls of one event *)
DamageEventCalls(targetUuid, ev) ==
    LET attackerUuid == EffectiveAttacker(ev)
        damage == IF ev.Value # Null THEN ev.Value ELSE OrZero(ev.LuckyValue)
        d == DamageFields(ev)
    IN
    IF ev.OwnerId = Null \/ ev.OwnerId = 0 THEN <<>>
    ELSE IF attackerUuid = Null THEN <<>>
    ELSE IF damage = 0 THEN <<>>
    ELSE IF isUuidPlayer(targetUuid)
         THEN IF isUuidPlayer(attackerUuid) THEN <<>>
              ELSE << [op |-> "processDamageToPlayer",
                       uid |-> ShiftRight16(targetUuid), damage |-> d] >>
    ELSE IF isUuidMonster(targetUuid)
         THEN IF isUuidPlayer(attackerUuid)
              THEN << [op |-> "processPlayerDamage",
                       uid |-> ShiftRight16(attackerUuid), damage |-> d] >>
              ELSE <<>>
    ELSE <<>>

(* a variant that goes through the events last first *)
RECURSIVE DamageEventsFromLast(_, _, _)
DamageEventsFromLast(targetUuid, events, i) ==
    IF i > Len(events) THEN <<>>
    ELSE DamageEventsFromLast(targetUuid, events, i + 1) \o DamageEventCalls(targetUuid, events[i])

RECURSIVE DamageEventsFrom(_, _, _)
DamageEventsFrom(targetUuid, events, i) ==
    IF i > Len(events) THEN <<>>
    ELSE DamageEventCalls(targetUuid, events[i]) \o DamageEventsFrom(targetUuid, events, i + 1)

ProcessAoiSyncDelta(delta) ==
    IF delta.Uuid = Null THEN <<>>
    ELSE LET targetUid == ShiftRight16(delta.Uuid)
             attrCalls == IF isUuidPlayer(delta.Uuid) THEN ProcessPlayerAttrs(targetUid, delta.Attrs)
                          ELSE IF isUuidMonster(delta.Uuid) THEN ProcessEnemyAttrs(targetUid, delta.Attrs)
                          ELSE <<>>
         IN attrCalls \o DamageEventsFrom(delta.Uuid, delta.Events, 1)

----------------------------------------------------------------------------
(* Sample entities.  The low 16 bits classify: 1 player, 2 monster.         *)

UPlayerA == MkUuid(1, 1)
UPlayerB == MkUuid(2, 1)
UPlayerZ == MkUuid(0, 1)
UPlayerHigh == MkUuid(32767, 1)
UMonsterA == MkUuid(3, 2)
UMonsterB == MkUuid(4, 2)
UMonsterHigh == MkUuid(32766, 2)
UOther3 == MkUuid(5, 3)
UOther0 == MkUuid(6, 0)
UOther257 == MkUuid(7, 257)
UOther258 == MkUuid(8, 258)
UOtherTop == MkUuid(9, 65535)

TargetUuids == << Null, UPlayerA, UPlayerHigh, UMonsterA, UMonsterHigh,
                  UOther3, UOther0, UOther257, UOther258 >>

AttackerUuids == << Null, UPlayerB, UPlayerZ, UMonsterB, UOther3, UOther257, UOtherTop >>

SummonerUuids == << Null, LongZero, UPlayerA, UMonsterA >>

(* sequences of samples: F over A, over A x B, over A x B x C, ... *)
Map1(A, F(_)) == [i \in 1..Len(A) |-> F(A[i])]

Map2(A, B, F(_, _)) ==
    [i \in 1..(Len(A) * Len(B)) |-> F(A[((i - 1) \div Len(B)) + 1], B[((i - 1) % Len(B)) + 1])]

Map3(A, B, C, F(_, _, _)) ==
    [i \in 1..(Len(A) * Len(B) * Len(C)) |->
        F(A[((i - 1) \div (Len(B) * Len(C))) + 1],
          B[(((i - 1) \div Len(C)) % Len(B)) + 1],
          C[((i - 1) % Len(C)) + 1])]

Map4(A, B, C, D, F(_, _, _, _)) ==
    [i \in 1..(Len(A) * Len(B) * Len(C) * Len(D)) |->
        F(A[((i - 1) \div (Len(B) * Len(C) * Len(D))) + 1],
          B[(((i - 1) \div (Len(C) * Len(D))) % Len(B)) + 1],
          C[(((i - 1) \div Len(D)) % Len(C)) + 1],
          D[((i - 1) % Len(D)) + 1])]

Range(f) == { f[i] : i \in DOMAIN f }

----------------------------------------------------------------------------
(* The schema decoder (blueprotobuf) is generated code that is not part of *)
(* the sources at hand.  It is modelled as a registry: a message body is    *)
(* empty (the message with every field absent) or the two-byte big-endian   *)
(* index of a message of the schema's registry; any other body is a decode  *)
(* error.                                                                   *)

BaseEvent == [OwnerId |-> 7, AttackerUuid |-> UPlayerB, TopSummonerId |-> Null,
              Value |-> 1234, LuckyValue |-> Null, TypeFlag |-> 1, Type |-> 0,
              IsMiss |-> Null, IsDead |-> Null, HpLessenValue |-> Null,
              Property |-> 4, DamageSource |-> Null]

Delta(uuid, attrs, events) == [Uuid |-> uuid, Attrs |-> attrs, Events |-> events]

EmptyDelta == Delta(Null, <<>>, <<>>)

Attr(id, data) == [AttrId |-> id, HasData |-> TRUE, AttrData |-> data]

(* a string attribute blob: u32 LE length, 4 reserved, the bytes, 4 reserved *)
StringBlob(str) == U32BytesLE(Len(str)) \o << 0, 0, 0, 0 >> \o str \o << 0, 0, 0, 0 >>

StrAlice == << 65, 108, 105, 99, 101 >>
StrGob == << 71, 111, 98 >>

(* target x attacker x summoner *)
PairingDeltas ==
    Map3(TargetUuids, AttackerUuids, SummonerUuids,
         LAMBDA t, a, s : Delta(t, <<>>, << [BaseEvent EXCEPT !.AttackerUuid = a, !.TopSummonerId = s] >>))

(* skill id, value, lucky value and type flag of a player -> monster event *)
FieldDeltas ==
    Map4(<< Null, 0, 7 >>, << Null, 0, 1234 >>, << Null, 0, 55 >>, << Null, 0, 1, 2, 4, 5, 7 >>,
         LAMBDA o, v, l, f : Delta(UMonsterA, <<>>, << [BaseEvent EXCEPT !.OwnerId = o, !.Value = v,
                                                                        !.LuckyValue = l, !.TypeFlag = f] >>))

DetailDeltas ==
    Map1(<< Null, 0, 1, 2, 3, 4, 5, 6, 7, 8, 9 >>,
         LAMBDA e : Delta(UMonsterA, <<>>, << [BaseEvent EXCEPT !.Property = e] >>))
    \o Map3(<< Null, 0, 2 >>, << Null, 0, 1 >>, << Null, 1 >>,
            LAMBDA t, m, d : Delta(UPlayerA, <<>>, << [BaseEvent EXCEPT !.AttackerUuid = UMonsterB, !.Type = t,
                                                                       !.IsMiss = m, !.IsDead = d] >>))
    \o Map2(<< Null, 10 >>, << Null, 3 >>,
            LAMBDA h, c : Delta(UMonsterA, <<>>, << [BaseEvent EXCEPT !.HpLessenValue = h, !.DamageSource = c] >>))

TwoEventDeltas ==
    Map3(<< UPlayerA, UMonsterA >>, << UPlayerB, UMonsterB, Null >>, << UPlayerB, UMonsterB >>,
         LAMBDA t, a, b : Delta(t, <<>>, << [BaseEvent EXCEPT !.AttackerUuid = a, !.Value = 11],
                                            [BaseEvent EXCEPT !.AttackerUuid = b, !.Value = 22, !.OwnerId = 8] >>))

SampleAttrs ==
    << << Attr(AttrType.AttrName, StringBlob(StrAlice)) >>,
       << Attr(AttrType.AttrName, StringBlob(StrGob)),
          Attr(AttrType.AttrMaxHp, U32Bytes(500)),
          Attr(AttrType.AttrHp, U32Bytes(77)) >>,
       << Attr(AttrType.AttrProfessionId, U32Bytes(23)),
          Attr(AttrType.AttrLevel, << 0, 0 >>),
          Attr(AttrType.AttrFightPoint, U32Bytes(9000)) >> >>

AttrDeltas ==
    Map2(<< UPlayerA, UMonsterA, UOther3 >>, SampleAttrs, LAMBDA t, as : Delta(t, as, <<>>))

(* deltas that are wrapped by the other schemas and envelopes *)
CoreDeltas ==
    Map2(<< UPlayerA, UMonsterA, UOther3 >>, << UPlayerB, UMonsterB >>,
         LAMBDA t, a : Delta(t, <<>>, << [BaseEvent EXCEPT !.AttackerUuid = a] >>))
    \o << Delta(UMonsterA, << Attr(AttrType.AttrMaxHp, U32Bytes(500)) >>, << BaseEvent >>) >>

(* type flags of a monster -> player event *)
FlagDeltas ==
    Map1(<< Null, 0, 1, 2, 3, 4, 5, 6, 7, 8, 12, 13, 255 >>,
         LAMBDA f : Delta(UPlayerA, <<>>, << [BaseEvent EXCEPT !.AttackerUuid = UMonsterB, !.TypeFlag = f] >>))

(* attribute lists in which some attributes cannot be decoded: data too   *)
(* short for a u32, a string blob shorter than its header, shorter than    *)
(* the length it declares, or without its trailing four bytes              *)
FaultyAttrs ==
    << << Attr(AttrType.AttrName, StringBlob(StrAlice)),
          Attr(AttrType.AttrLevel, << 0, 0 >>),
          Attr(AttrType.AttrFightPoint, U32Bytes(9000)),
          Attr(AttrType.AttrProfessionId, <<>>),
          Attr(AttrType.AttrLevel, U32Bytes(7)) >>,
       << Attr(AttrType.AttrName, << 5, 0, 0, 0, 0, 0, 0, 0, 65 >>),
          Attr(AttrType.AttrProfessionId, U32Bytes(23)),
          Attr(AttrType.AttrName, << 1, 2, 3 >>),
          Attr(AttrType.AttrFightPoint, U32Bytes(1)) >>,
       << Attr(AttrType.AttrName, U32BytesLE(3) \o << 0, 0, 0, 0 >> \o StrGob),
          Attr(AttrType.AttrLevel, U32Bytes(5)),
          Attr(AttrType.AttrHp, U32Bytes(77)) >>,
       << Attr(AttrType.AttrMaxHp, U32Bytes(500)),
          Attr(AttrType.AttrHp, << 1 >>),
          Attr(AttrType.AttrName, StringBlob(StrGob)),
          Attr(AttrType.AttrId, <<>>),
          Attr(AttrType.AttrElementFlag, U32Bytes(4)),
          Attr(AttrType.AttrReductionLevel, << 0, 0, 0 >>),
          Attr(AttrType.AttrReduntionId, U32Bytes(3)) >>,
       << Attr(AttrType.AttrName, << 9, 0, 0, 0, 0, 0, 0, 0, 71, 111 >>),
          Attr(AttrType.AttrMaxHp, U32Bytes(500)),
          Attr(AttrType.AttrHp, U32Bytes(77)) >> >>

FaultyAttrDeltas ==
    Map2(<< UPlayerA, UMonsterA >>, FaultyAttrs, LAMBDA t, as : Delta(t, as, <<>>))

(* an event with every field absent *)
EmptyEvent == [OwnerId |-> Null, AttackerUuid |-> Null, TopSummonerId |-> Null,
               Value |-> Null, LuckyValue |-> Null, TypeFlag |-> Null, Type |-> Null,
               IsMiss |-> Null, IsDead |-> Null, HpLessenValue |-> Null,
               Property |-> Null, DamageSource |-> Null]

(* a monster hit by a player, the event carrying AttackerUuid, Value,      *)
(* TypeFlag and Property, with and without a skill id, and nothing else    *)
ScenarioDeltas ==
    Map4(<< Null, 0, 7 >>, << 1234, 1 >>, << 0, 1 >>, << 4, 1, 0, 9 >>,
         LAMBDA o, v, f, e : Delta(UMonsterA, <<>>, << [EmptyEvent EXCEPT !.OwnerId = o, !.AttackerUuid = UPlayerB,
                                                                         !.Value = v, !.TypeFlag = f,
                                                                         !.Property = e] >>))

(* attribute lists with and without a name and a maximum hp: the name      *)
(* alone, the maximum alone, a maximum of 0, an empty name, the name       *)
(* 'Unknown', setters after both, an undecodable name after a name, and a  *)
(* second maximum of 0                                                     *)
EnemyLists ==
    << << Attr(AttrType.AttrName, StringBlob(StrGob)) >>,
       << Attr(AttrType.AttrMaxHp, U32Bytes(500)) >>,
       << Attr(AttrType.AttrName, StringBlob(StrGob)), Attr(AttrType.AttrMaxHp, U32Bytes(0)) >>,
       << Attr(AttrType.AttrName, StringBlob(<<>>)), Attr(AttrType.AttrMaxHp, U32Bytes(500)) >>,
       << Attr(AttrType.AttrName, StringBlob(StrUnknown)), Attr(AttrType.AttrMaxHp, U32Bytes(500)) >>,
       << Attr(AttrType.AttrMaxHp, U32Bytes(500)), Attr(AttrType.AttrName, StringBlob(StrAlice)),
          Attr(AttrType.AttrHp, U32Bytes(77)) >>,
       << Attr(AttrType.AttrName, StringBlob(StrGob)), Attr(AttrType.AttrMaxHp, U32Bytes(500)),
          Attr(AttrType.AttrName, << 1, 2, 3 >>) >>,
       << Attr(AttrType.AttrName, StringBlob(StrGob)), Attr(AttrType.AttrMaxHp, U32Bytes(500)),
          Attr(AttrType.AttrMaxHp, U32Bytes(0)) >> >>

EnemyListDeltas ==
    Map2(<< UMonsterA, UPlayerA >>, EnemyLists, LAMBDA t, as : Delta(t, as, <<>>))

AllDeltas ==
    CoreDeltas \o PairingDeltas \o FieldDeltas \o DetailDeltas \o TwoEventDeltas \o AttrDeltas
    \o FlagDeltas \o FaultyAttrDeltas \o ScenarioDeltas \o EnemyListDeltas

(* a monster with an attribute and three events, the second without skill  *)
(* id; a player with a name and two events                                 *)
OrderDeltas ==
    << Delta(UMonsterA, << Attr(AttrType.AttrMaxHp, U32Bytes(500)) >>,
             << [BaseEvent EXCEPT !.Value = 11],
                [BaseEvent EXCEPT !.Value = 15, !.OwnerId = 0],
                [BaseEvent EXCEPT !.Value = 22, !.OwnerId = 8] >>),
       Delta(UPlayerA, << Attr(AttrType.AttrName, StringBlob(StrAlice)) >>,
             << [BaseEvent EXCEPT !.AttackerUuid = UMonsterB, !.Value = 33],
                [BaseEvent EXCEPT !.AttackerUuid = UMonsterA, !.Value = 44] >>) >>

(* events that lack a skill id, an attacker or a damage, between events   *)
(* that have all three: on a monster hit by a player, on a player hit by   *)
(* a monster                                                               *)
FilterEvents(attacker) ==
    << [BaseEvent EXCEPT !.AttackerUuid = attacker, !.OwnerId = Null],
       [BaseEvent EXCEPT !.AttackerUuid = attacker, !.Value = 11],
       [BaseEvent EXCEPT !.AttackerUuid = Null],
       [BaseEvent EXCEPT !.AttackerUuid = attacker, !.Value = 0, !.LuckyValue = 55],
       [BaseEvent EXCEPT !.AttackerUuid = attacker, !.Value = Null, !.LuckyValue = 0],
       [BaseEvent EXCEPT !.AttackerUuid = attacker, !.Value = Null, !.LuckyValue = 55, !.OwnerId = 8],
       [BaseEvent EXCEPT !.AttackerUuid = attacker, !.Value = Null],
       [BaseEvent EXCEPT !.AttackerUuid = attacker, !.OwnerId = 0],
       [BaseEvent EXCEPT !.AttackerUuid = Null, !.TopSummonerId = attacker, !.Value = 22, !.OwnerId = 9] >>

FilterDeltas ==
    << Delta(UMonsterA, <<>>, FilterEvents(UPlayerB)),
       Delta(UPlayerA, <<>>, FilterEvents(UMonsterB)),
       Delta(UMonsterA, <<>>, << [BaseEvent EXCEPT !.Value = 0], [BaseEvent EXCEPT !.OwnerId = Null] >>) >>

SyncNearDeltaInfoRegistry ==
    Map1(AllDeltas, LAMBDA d : [DeltaInfos |-> << d >>])
    \o Map2(<< CoreDeltas[1], CoreDeltas[4] >>, << CoreDeltas[3], CoreDeltas[2] >>,
            LAMBDA d, e : [DeltaInfos |-> << d, e >>])
    \o Map1(OrderDeltas, LAMBDA d : [DeltaInfos |-> << d >>])
    \o << [DeltaInfos |-> << CoreDeltas[2], CoreDeltas[3] >>],
          [DeltaInfos |-> << CoreDeltas[3], CoreDeltas[2] >>],
          [DeltaInfos |-> << OrderDeltas[2], CoreDeltas[4], OrderDeltas[1] >>] >>
    \o Map1(FilterDeltas, LAMBDA d : [DeltaInfos |-> << d >>])

EmptySyncNearDeltaInfo == [DeltaInfos |-> <<>>]

SyncServerTimeRegistry == Map1(CoreDeltas, LAMBDA d : [HasDeltaInfo |-> TRUE, DeltaInfo |-> d])

EmptySyncServerTime == [HasDeltaInfo |-> FALSE, DeltaInfo |-> EmptyDelta]

SyncToMeDeltaInfoRegistry ==
    Map1(<< UPlayerA, UPlayerB, Null >>,
         LAMBDA u : [HasDeltaInfo |-> TRUE, Uuid |-> u, HasBaseDelta |-> FALSE, BaseDelta |-> EmptyDelta])
    \o Map2(<< Null, UPlayerA, UPlayerB >>, CoreDeltas,
            LAMBDA u, d : [HasDeltaInfo |-> TRUE, Uuid |-> u, HasBaseDelta |-> TRUE, BaseDelta |-> d])

EmptySyncToMeDeltaInfo ==
    [HasDeltaInfo |-> FALSE, Uuid |-> Null, HasBaseDelta |-> FALSE, BaseDelta |-> EmptyDelta]

(* an entity of SyncNearEntities, and the body of SyncContainerData and     *)
(* SyncContainerDirtyData: Uuid, Entity, Entity.Container and its parts     *)
EmptyEntity ==
    [Uuid |-> Null, HasEntity |-> FALSE, HasContainer |-> FALSE,
     HasCharBaseData |-> FALSE, HasCharBase |-> FALSE, Name |-> <<>>, FightPoint |-> 0,
     HasProfessionList |-> FALSE, CurProfessionId |-> 0,
     HasMonsterBaseData |-> FALSE, HasMonsterBase |-> FALSE, MonsterId |-> 0,
     Attrs |-> <<>>]

CharEntity(uuid, name, fightPoint, professionId) ==
    [EmptyEntity EXCEPT !.Uuid = uuid, !.HasEntity = TRUE, !.HasContainer = TRUE,
                        !.HasCharBaseData = TRUE, !.HasCharBase = TRUE, !.Name = name,
                        !.FightPoint = fightPoint, !.HasProfessionList = TRUE,
                        !.CurProfessionId = professionId]

MonsterEntity(uuid, id) ==
    [EmptyEntity EXCEPT !.Uuid = uuid, !.HasEntity = TRUE, !.HasContainer = TRUE,
                        !.HasMonsterBaseData = TRUE, !.HasMonsterBase = TRUE, !.MonsterId = id]

AttrEntity(uuid, attrs) ==
    [EmptyEntity EXCEPT !.Uuid = uuid, !.HasEntity = TRUE, !.HasContainer = TRUE, !.Attrs = attrs]

SampleEntities ==
    Map1(<< UPlayerA, UPlayerB, UMonsterA, UOther3, Null >>, LAMBDA u : CharEntity(u, StrAlice, 9000, 23))
    \o Map1(<< 0, 21, 27 >>, LAMBDA p : CharEntity(UPlayerA, <<>>, 0, p))
    \o Map1(<< UMonsterA, UMonsterB, UPlayerA, UOther0 >>, LAMBDA u : MonsterEntity(u, 15))
    \o << MonsterEntity(UMonsterA, 0), [EmptyEntity EXCEPT !.Uuid = UPlayerB],
          [CharEntity(UPlayerA, StrAlice, 9000, 23) EXCEPT !.HasProfessionList = FALSE] >>
    \o Map2(<< UPlayerA, UMonsterA, UOther3 >>, SampleAttrs, LAMBDA u, as : AttrEntity(u, as))

SyncNearEntitiesRegistry ==
    Map2(<< UPlayerA, UPlayerB >>, << UMonsterA, UPlayerA >>,
         LAMBDA a, b : [Entities |-> << CharEntity(a, StrAlice, 9000, 23), MonsterEntity(b, 15) >>])
    \o Map1(SampleEntities, LAMBDA e : [Entities |-> << e >>])

EmptySyncNearEntities == [Entities |-> <<>>]

SyncContainerDataRegistry == SampleEntities

SyncContainerDirtyDataRegistry == SampleEntities

(* NewMove / UserControlInfo seen through _processPossibleMove: whether the *)
(* decode throws, whether a CurPos is there, and the position               *)
MoveView(ok, hasPos, x, version) ==
    [ok |-> ok, hasPos |-> hasPos, X |-> x, Y |-> 2, Z |-> Null, Dir |-> 4, MoveVersion |-> version]

Booleans == << FALSE, TRUE >>

MoveRegistry ==
    Map4(Booleans, Booleans, Booleans, Booleans,
         LAMBDA a, b, c, d : [NewMove |-> MoveView(a, b, 10, 1), UserControlInfo |-> MoveView(c, d, 20, Null)])

EmptyMove == [NewMove |-> MoveView(TRUE, FALSE, Null, Null),
              UserControlInfo |-> MoveView(TRUE, FALSE, Null, Null)]

(* pb.<Schema>.decode(payloadBuffer) *)
SchemaIndex(payload) == payload[1] * 256 + payload[2]

DecodeOk(registry, payload) ==
    payload = <<>> \/ (Len(payload) = 2 /\ SchemaIndex(payload) \in 1..Len(registry))

Decode(registry, empty, payload) ==
    IF payload = <<>> THEN empty ELSE registry[SchemaIndex(payload)]

(* the body that decodes to message m *)
RECURSIVE IndexFrom(_, _, _)
IndexFrom(registry, m, i) ==
    IF registry[i] = m THEN i ELSE IndexFrom(registry, m, i + 1)

Encode(registry, m) == U16Bytes(IndexFrom(registry, m, 1))

----------------------------------------------------------------------------
(* The processor's effects.  A handler maps the state st it finds to the    *)
(* state it leaves: calls (the sink calls made so far, in order), uuid      *)
(* (currentUserUuid), notices and errors (lines logged at info and error    *)
(* level), thrown (an exception is propagating), processed (the byte       *)
(* strings the sniffer has passed to processPacket, in order), depth (the   *)
(* number of processPacket calls on the stack below the running one) and    *)
(* maxDepth (the largest depth so far).                                     *)

St(calls, uuid) ==
    [calls |-> calls, uuid |-> uuid, notices |-> 0, errors |-> 0, thrown |-> FALSE, processed |-> <<>>,
     depth |-> 0, maxDepth |-> 0]

Call(st, calls) == [st EXCEPT !.calls = @ \o calls]

Throw(st) == [st EXCEPT !.thrown = TRUE]

(* a variant that keeps the first uuid it is given *)
TrackUserOnce(st, uuid) ==
    IF uuid # Null /\ st.uuid = LongZero
    THEN [st EXCEPT !.uuid = uuid, !.notices = @ + 1]
    ELSE st

(* if (uuid && !currentUserUuid.eq(uuid)) { currentUserUuid = uuid; info } *)
TrackUser(st, uuid) ==
    IF uuid # Null /\ st.uuid # uuid
    THEN [st EXCEPT !.uuid = uuid, !.notices = @ + 1]
    ELSE st

(* the calls for one entity of SyncNearEntities *)
NearEntityCalls(e) ==
    LET uid == ShiftRight16(e.Uuid) IN
    IF ~e.HasEntity \/ ~e.HasContainer THEN <<>>
    ELSE IF isUuidPlayer(e.Uuid)
         THEN IF ~e.HasCharBaseData \/ ~e.HasCharBase THEN <<>>
              ELSE (IF e.Name # <<>> THEN << [op |-> "setName", uid |-> uid, name |-> e.Name] >> ELSE <<>>)
                   \o (IF e.FightPoint # 0
                       THEN << [op |-> "setFightPoint", uid |-> uid, value |-> e.FightPoint] >> ELSE <<>>)
                   \o (IF e.HasProfessionList /\ e.CurProfessionId # 0
                       THEN << [op |-> "setProfession", uid |-> uid,
                                professionName |-> getProfessionNameFromId(e.CurProfessionId)] >>
                       ELSE <<>>)
    ELSE IF isUuidMonster(e.Uuid)
         THEN IF ~e.HasMonsterBaseData \/ ~e.HasMonsterBase THEN <<>>
              ELSE IF e.MonsterId # 0
                   THEN << [op |-> "setEnemyId", uid |-> uid, id |-> e.MonsterId] >> ELSE <<>>
    ELSE <<>>

RECURSIVE NearEntitiesFrom(_, _, _)
NearEntitiesFrom(st, entities, i) ==
    IF i > Len(entities) THEN st
    ELSE NearEntitiesFrom(Call(TrackUser(st, entities[i].Uuid), NearEntityCalls(entities[i])),
                          entities, i + 1)

ProcessSyncNearEntities(st, payload) ==
    IF ~DecodeOk(SyncNearEntitiesRegistry, payload) THEN Throw(st)
    ELSE NearEntitiesFrom(st, Decode(SyncNearEntitiesRegistry, EmptySyncNearEntities, payload).Entities, 1)

(* the body of _processSyncContainerData on the decoded message m *)
SyncContainerDataOf(st, m, uid) ==
    IF m.Uuid = Null \/ ~m.HasEntity THEN st
    ELSE IF isUuidPlayer(m.Uuid)
         THEN IF ~m.HasContainer \/ ~m.HasCharBaseData \/ ~m.HasCharBase THEN st
              ELSE Call(st,
                   (IF m.Name # <<>> THEN << [op |-> "setName", uid |-> uid, name |-> m.Name] >> ELSE <<>>)
                   \o (IF m.FightPoint # 0
                       THEN << [op |-> "setFightPoint", uid |-> uid, value |-> m.FightPoint] >> ELSE <<>>)
                   \o (IF m.HasProfessionList /\ m.CurProfessionId # 0
                       THEN << [op |-> "setProfession", uid |-> uid,
                                professionName |-> getProfessionNameFromId(m.CurProfessionId)] >>
                       ELSE <<>>))
    ELSE IF isUuidMonster(m.Uuid)
         THEN IF ~m.HasContainer \/ ~m.HasMonsterBaseData \/ ~m.HasMonsterBase THEN st
              ELSE IF m.MonsterId # 0
                   THEN Call(st, << [op |-> "setEnemyId", uid |-> uid, id |-> m.MonsterId] >>)
                   ELSE st
    ELSE st

ProcessSyncContainerData(st, payload) ==
    IF ~DecodeOk(SyncContainerDataRegistry, payload) THEN Throw(st)
    ELSE SyncContainerDataOf(st, Decode(SyncContainerDataRegistry, EmptyEntity, payload),
                             ShiftRight16(Decode(SyncContainerDataRegistry, EmptyEntity, payload).Uuid))

(* the body of _processSyncContainerDirtyData on the decoded message m *)
SyncContainerDirtyDataOf(st, m, uid) ==
    IF m.Uuid = Null \/ ~m.HasEntity THEN st
    ELSE IF isUuidPlayer(m.Uuid)
         THEN IF ~m.HasContainer THEN st ELSE Call(st, ProcessPlayerAttrs(uid, m.Attrs))
    ELSE IF isUuidMonster(m.Uuid)
         THEN IF ~m.HasContainer THEN st ELSE Call(st, ProcessEnemyAttrs(uid, m.Attrs))
    ELSE st

ProcessSyncContainerDirtyData(st, payload) ==
    IF ~DecodeOk(SyncContainerDirtyDataRegistry, payload) THEN Throw(st)
    ELSE SyncContainerDirtyDataOf(st, Decode(SyncContainerDirtyDataRegistry, EmptyEntity, payload),
                                  ShiftRight16(Decode(SyncContainerDirtyDataRegistry, EmptyEntity, payload).Uuid))

(* the body of _processSyncServerTime on the decoded message m *)
SyncServerTimeOf(st, m) ==
    IF ~m.HasDeltaInfo THEN st ELSE Call(st, ProcessAoiSyncDelta(m.DeltaInfo))

ProcessSyncServerTime(st, payload) ==
    IF ~DecodeOk(SyncServerTimeRegistry, payload) THEN Throw(st)
    ELSE SyncServerTimeOf(st, Decode(SyncServerTimeRegistry, EmptySyncServerTime, payload))

RECURSIVE DeltasFrom(_, _)
DeltasFrom(deltas, i) ==
    IF i > Len(deltas) THEN <<>>
    ELSE ProcessAoiSyncDelta(deltas[i]) \o DeltasFrom(deltas, i + 1)

ProcessSyncNearDeltaInfo(st, payload) ==
    IF ~DecodeOk(SyncNearDeltaInfoRegistry, payload) THEN Throw(st)
    ELSE Call(st, DeltasFrom(Decode(SyncNearDeltaInfoRegistry, EmptySyncNearDeltaInfo, payload).DeltaInfos, 1))

(* the body of _processSyncToMeDeltaInfo on the decoded message m, with st1 *)
(* the state once the local player is tracked; reading .Uuid of an absent   *)
(* DeltaInfo throws                                                         *)
SyncToMeDeltaInfoOf(st, m, st1) ==
    IF ~m.HasDeltaInfo THEN Throw(st)
    ELSE IF ~m.HasBaseDelta THEN st1 ELSE Call(st1, ProcessAoiSyncDelta(m.BaseDelta))

ProcessSyncToMeDeltaInfo(st, payload) ==
    IF ~DecodeOk(SyncToMeDeltaInfoRegistry, payload) THEN Throw(st)
    ELSE SyncToMeDeltaInfoOf(st, Decode(SyncToMeDeltaInfoRegistry, EmptySyncToMeDeltaInfo, payload),
                             TrackUser(st, Decode(SyncToMeDeltaInfoRegistry, EmptySyncToMeDeltaInfo, payload).Uuid))

LocalPosition(uuid, p) ==
    [op |-> "setLocalPosition", uid |-> ShiftRight16(uuid), x |-> OrZero(p.X), y |-> OrZero(p.Y),
     z |-> OrZero(p.Z), dir |-> OrZero(p.Dir), moveVersion |-> OrZero(p.MoveVersion)]

(* a variant that goes on to UserControlInfo after a NewMove position *)
PossibleMoveOfBoth(st, m) ==
    Call(st, (IF m.NewMove.ok /\ m.NewMove.hasPos THEN << LocalPosition(st.uuid, m.NewMove) >> ELSE <<>>)
             \o (IF m.UserControlInfo.ok /\ m.UserControlInfo.hasPos
                 THEN << LocalPosition(st.uuid, m.UserControlInfo) >> ELSE <<>>))

(* the body of _processPossibleMove on what the two decodes give *)
PossibleMoveOf(st, m) ==
    IF m.NewMove.ok /\ m.NewMove.hasPos
    THEN Call(st, << LocalPosition(st.uuid, m.NewMove) >>)
    ELSE IF m.UserControlInfo.ok /\ m.UserControlInfo.hasPos
    THEN Call(st, << LocalPosition(st.uuid, m.UserControlInfo) >>)
    ELSE st

(* _processPossibleMove: NewMove first, then UserControlInfo; both caught *)
ProcessPossibleMove(st, payload) ==
    IF ~DecodeOk(MoveRegistry, payload) THEN st
    ELSE PossibleMoveOf(st, Decode(MoveRegistry, EmptyMove, payload))

(* _decompressPayload *)
DecompressOk(buffer) == ZstdValid(buffer)

(* a variant that hands the bytes on as they are *)
DecompressPayloadRaw(buffer) == buffer

DecompressPayload(buffer) == ZstdDecompress(buffer)

(* the switch on methodId of _processNotifyMsg *)
DispatchMethod(st, methodId, msgPayload) ==
    CASE methodId = NotifyMethod.SyncNearEntities -> ProcessSyncNearEntities(st, msgPayload)
      [] methodId = NotifyMethod.SyncContainerData -> ProcessSyncContainerData(st, msgPayload)
      [] methodId = NotifyMethod.SyncContainerDirtyData -> ProcessSyncContainerDirtyData(st, msgPayload)
      [] methodId = NotifyMethod.SyncServerTime -> ProcessSyncServerTime(st, msgPayload)
      [] methodId = NotifyMethod.SyncToMeDeltaInfo -> ProcessSyncToMeDeltaInfo(st, msgPayload)
      [] methodId = NotifyMethod.SyncNearDeltaInfo -> ProcessSyncNearDeltaInfo(st, msgPayload)
      [] OTHER -> ProcessPossibleMove(st, msgPayload)

(* a variant that compares the low 32 bits only *)
IsTrackedServiceLow(serviceUuid) == serviceUuid[2] = ServiceUuid[2]

(* the service id test of _processNotifyMsg *)
IsTrackedService(serviceUuid) == serviceUuid = ServiceUuid

(* _processNotifyMsg once the three header fields are read *)
NotifyMsgOf(st, serviceUuid, methodId, remaining, isZstdCompressed) ==
    IF ~IsTrackedService(serviceUuid) THEN st
    ELSE IF isZstdCompressed /\ ~DecompressOk(remaining) THEN Throw(st)
    ELSE DispatchMethod(st, methodId,
                        IF isZstdCompressed THEN DecompressPayload(remaining) ELSE remaining)

(* _processNotifyMsg on a reader over packet at offset 6 *)
ProcessNotifyMsg(st, packet, isZstdCompressed) ==
    IF ~CanRead(packet, 6, 16) THEN Throw(st)
    ELSE NotifyMsgOf(st, ReadUInt64BE(packet, 6), ReadUInt32BE(packet, 18),
                     Subarray(packet, 22, Len(packet)), isZstdCompressed)

(* the container case of processPacket: what it re-enters processPacket on *)
NestedOk(packet) ==
    LET nestedPacket == Subarray(packet, 6, Len(packet)) IN
    /\ CanRead(nestedPacket, 0, 6)
    /\ (ReadUInt16BE(nestedPacket, 4) >= 32768 => DecompressOk(Subarray(nestedPacket, 6, Len(nestedPacket))))

(* a variant that re-enters on as many bytes as the nested size announces *)
NestedPacketBySize(packet) ==
    LET nestedPacket == Subarray(packet, 6, Len(packet))
        rest == Subarray(nestedPacket, 6, Min(Len(nestedPacket), ReadUInt32BE(nestedPacket, 0)))
    IN IF ReadUInt16BE(nestedPacket, 4) >= 32768 THEN DecompressPayload(rest) ELSE rest

(* a variant that re-enters on the whole body, nested envelope included *)
NestedPacketWhole(packet) == Subarray(packet, 6, Len(packet))

(* a variant that never decompresses *)
NestedPacketRaw(packet) == Subarray(packet, 12, Len(packet))

NestedPacket(packet) ==
    LET nestedPacket == Subarray(packet, 6, Len(packet))
        rest == Subarray(nestedPacket, 6, Len(nestedPacket))
    IN IF ReadUInt16BE(nestedPacket, 4) >= 32768 THEN DecompressPayload(rest) ELSE rest

IsContainer(msgTypeId) ==
    msgTypeId \in {MessageType.Call, MessageType.Echo, MessageType.FrameDown, MessageType.FrameUp}

(* this.processPacket(nestedPacket): the call and its return *)
Enter(st) ==
    [st EXCEPT !.depth = @ + 1, !.maxDepth = IF @ < st.depth + 1 THEN st.depth + 1 ELSE @]

Leave(st) == [st EXCEPT !.depth = @ - 1]

(* the catch of processPacket *)
Caught(st) == [st EXCEPT !.thrown = FALSE, !.errors = @ + 1]

(* processPacket: the do-while over packets from offset off, inside the    *)
(* try.  PacketOf is the switch on the type of one packet, AfterPacket the *)
(* loop condition (and the catch) once the switch has left r.              *)
RECURSIVE ProcessPacketFrom(_, _, _)

PacketOf(st, packet, packetType) ==
    CASE packetType % 32768 = MessageType.Notify -> ProcessNotifyMsg(st, packet, packetType >= 32768)
      [] packetType % 32768 = MessageType.Return -> st
      [] IsContainer(packetType % 32768) ->
           IF NestedOk(packet)
           THEN Leave(ProcessPacketFrom(Enter(st), NestedPacket(packet), 0))
           ELSE Throw(st)
      [] OTHER -> st

AfterPacket(r, packets, off, packetSize) ==
    IF r.thrown THEN Caught(r)
    ELSE IF packetSize < Len(packets) - off THEN ProcessPacketFrom(r, packets, off + packetSize)
    ELSE r

PacketAt(st, packets, off, packetSize, packet) ==
    IF packetSize < 6 THEN st
    ELSE IF ~CanRead(packet, 0, 6) THEN Caught(st)
    ELSE AfterPacket(PacketOf(st, packet, ReadUInt16BE(packet, 4)), packets, off, packetSize)

ProcessPacketFrom(st, packets, off) ==
    IF ~CanRead(packets, off, 4) THEN Caught(st)
    ELSE PacketAt(st, packets, off, ReadUInt32BE(packets, off),
                  Subarray(packets, off,
                           IF ReadUInt32BE(packets, off) < Len(packets) - off
                           THEN off + ReadUInt32BE(packets, off) ELSE Len(packets)))

ProcessPacket(st, packets) == ProcessPacketFrom(st, packets, 0)

----------------------------------------------------------------------------
(* Sniffer: the reassembly loop of the packet callback *)

MinFrame == 6
MaxFrame == 2 * 1024 * 1024

(* a variant that also rejects the largest frame *)
BadLengthBelowMax(len) == len < MinFrame \/ len >= MaxFrame

(* a variant without the upper limit *)
BadLengthNoMax(len) == len < MinFrame

(* a variant that also rejects the smallest frame *)
BadLengthInclusive(len) == len <= MinFrame \/ len > MaxFrame

(* the size test of the loop: a length that makes the loop skip one byte *)
BadLength(len) == len < MinFrame \/ len > MaxFrame

(* the offsets from off on at which the loop does not skip a byte: four    *)
(* bytes are there and they read as an acceptable length                   *)
GoodOffsets(acc, off) ==
    { o \in off..(Len(acc) - 4) : ~BadLength(ReadUInt32BE(acc, o)) }

(* a variant that skips the four bytes of a rejected length at once *)
SkipToWord(acc, off) ==
    LET stops == { o \in off..Len(acc) :
                     /\ (o - off) % 4 = 0
                     /\ (Len(acc) - o < 4 \/ ~BadLength(ReadUInt32BE(acc, o))) }
    IN IF Len(acc) - off < 4 THEN off
       ELSE CHOOSE o \in stops : \A p \in stops : o <= p

(* where the loop stands after its run of one-byte skips from off: at the  *)
(* first acceptable length, or where fewer than four bytes are left        *)
SkipTo(acc, off) ==
    IF Len(acc) - off < 4 THEN off
    ELSE IF ~BadLength(ReadUInt32BE(acc, off)) THEN off
    ELSE LET good == GoodOffsets(acc, off + 1) IN
         IF good # {} THEN CHOOSE o \in good : \A p \in good : o <= p
         ELSE Len(acc) - 3

(* a variant that takes the length to exclude its own four bytes when it   *)
(* advances                                                                *)
RECURSIVE ReassembleFromPastPrefix(_, _)
ReassembleFromPastPrefix(acc, r) ==
    LET at == SkipTo(acc, r.offset)
        r1 == [r EXCEPT !.offset = at, !.skipped = @ \cup (r.offset..(at - 1))]
    IN
    IF Len(acc) - at < 4 THEN r1
    ELSE LET len == ReadUInt32BE(acc, at) IN
         IF Len(acc) - at < len THEN r1
         ELSE ReassembleFromPastPrefix(acc, [r1 EXCEPT !.offset = at + len + 4,
                                                       !.frames = Append(@, [at |-> at,
                                                                             bytes |-> Subarray(acc, at, at + len)])])

(* the while loop from offset with r = [offset, frames, skipped] so far;   *)
(* frames are [at, bytes] with at the offset in acc                        *)
RECURSIVE ReassembleFrom(_, _)
ReassembleFrom(acc, r) ==
    LET at == SkipTo(acc, r.offset)
        r1 == [r EXCEPT !.offset = at, !.skipped = @ \cup (r.offset..(at - 1))]
    IN
    IF Len(acc) - at < 4 THEN r1
    ELSE LET len == ReadUInt32BE(acc, at) IN
         IF Len(acc) - at < len THEN r1
         ELSE ReassembleFrom(acc, [r1 EXCEPT !.offset = at + len,
                                             !.frames = Append(@, [at |-> at,
                                                                   bytes |-> Subarray(acc, at, at + len)])])

Reassemble(acc) == ReassembleFrom(acc, [offset |-> 0, frames |-> <<>>, skipped |-> {}])

(* a variant that hands the frames of one payload over last first *)
RECURSIVE ProcessFramesReversed(_, _, _)
ProcessFramesReversed(st, frames, i) ==
    IF i > Len(frames) THEN st
    ELSE ProcessFramesReversed(ProcessPacket([st EXCEPT !.processed = Append(@, frames[Len(frames) + 1 - i].bytes)],
                                             frames[Len(frames) + 1 - i].bytes),
                               frames, i + 1)

(* a variant without the try around processPacket: the first frame that   *)
(* fails ends the loop                                                     *)
RECURSIVE ProcessFramesStopOnError(_, _, _)
ProcessFramesStopOnError(st, frames, i) ==
    IF i > Len(frames) \/ st.errors > 0 THEN st
    ELSE ProcessFramesStopOnError(ProcessPacket([st EXCEPT !.processed = Append(@, frames[i].bytes)],
                                                frames[i].bytes),
                                  frames, i + 1)

(* try { this.processor.processPacket(frame) } catch (_) {} for each frame *)
RECURSIVE ProcessFrames(_, _, _)
ProcessFrames(st, frames, i) ==
    IF i > Len(frames) THEN st
    ELSE ProcessFrames(ProcessPacket([st EXCEPT !.processed = Append(@, frames[i].bytes)],
                                     frames[i].bytes),
                       frames, i + 1)

----------------------------------------------------------------------------
(* Devices: what the code reads of an entry of Cap.deviceList() *)

Device(ipv4, loopback) == [ipv4 |-> ipv4, loopback |-> loopback]

DeviceLists == { <<>>,
                 << Device(FALSE, FALSE), Device(TRUE, TRUE), Device(TRUE, FALSE) >>,
                 << Device(TRUE, TRUE), Device(FALSE, FALSE) >> }

(* findIndex of _pickDefaultDeviceIndex, 0-based, -1 when there is none *)
FirstUsable(list) ==
    IF \E i \in 1..Len(list) : list[i].ipv4 /\ ~list[i].loopback
    THEN (CHOOSE i \in 1..Len(list) :
              /\ list[i].ipv4 /\ ~list[i].loopback
              /\ \A j \in 1..(i - 1) : ~(list[j].ipv4 /\ ~list[j].loopback)) - 1
    ELSE -1

PickDefaultDeviceIndex(list) == IF FirstUsable(list) < 0 THEN 0 ELSE FirstUsable(list)

Flows == {"a>b", "b>a"}

NoBuffers == [k \in {} |-> <<>>]

----------------------------------------------------------------------------
(* State after construction: new Sniffer(...), packet.js loaded *)

Init ==
    /\ running = FALSE
    /\ cap = Null
    /\ buffers = NoBuffers
    /\ hasProcessor = FALSE
    /\ devices \in DeviceLists
    /\ openHandles = 0
    /\ currentUserUuid = LongZero
    /\ notices = 0
    /\ errors = 0
    /\ sink = <<>>
    /\ stream = [k \in Flows |-> <<>>]
    /\ emitted = [k \in Flows |-> <<>>]
    /\ skips = [k \in Flows |-> {}]
    /\ lastFrames = <<>>
    /\ prevUuid = LongZero
    /\ npackets = 0
    /\ ncalls = 0
    /\ lastError = "none"
    /\ depth = 0
    /\ quiet = [k \in Flows |-> 0]
    /\ selectedDevice = Undefined
    /\ live = FALSE
    /\ status = Null
    /\ pending = <<>>
    /\ loop = NoLoop
    /\ pc = "idle"

processorVars == << currentUserUuid, notices, errors, sink, lastFrames, prevUuid, npackets, depth >>

(* the server's settings and what its adapter endpoint last answered *)
serverVars == << selectedDevice, live, status >>

(* The Sniffer's fields (with the handles it holds open and the histories *)
(* of its flows, which end with their buffers) as one record               *)
Sniffer ==
    [running |-> running, cap |-> cap, buffers |-> buffers, hasProcessor |-> hasProcessor,
     openHandles |-> openHandles, lastError |-> lastError,
     stream |-> stream, emitted |-> emitted, skips |-> skips, quiet |-> quiet]

Becomes(s) ==
    /\ running' = s.running
    /\ cap' = s.cap
    /\ buffers' = s.buffers
    /\ hasProcessor' = s.hasProcessor
    /\ openHandles' = s.openHandles
    /\ lastError' = s.lastError
    /\ stream' = s.stream
    /\ emitted' = s.emitted
    /\ skips' = s.skips
    /\ quiet' = s.quiet

(* a variant that leaves the flow buffers as they are *)
stopKeepsBuffers(s) ==
    [s EXCEPT !.openHandles = IF s.cap # Null /\ s.running THEN @ - 1 ELSE @,
              !.cap = Null,
              !.running = FALSE,
              !.stream = [k \in Flows |-> <<>>],
              !.emitted = [k \in Flows |-> <<>>],
              !.skips = [k \in Flows |-> {}],
              !.quiet = [k \in Flows |-> 0]]

(* a variant that forgets the handle without closing it *)
stopLeavesHandle(s) ==
    [s EXCEPT !.cap = Null,
              !.running = FALSE,
              !.buffers = NoBuffers,
              !.stream = [k \in Flows |-> <<>>],
              !.emitted = [k \in Flows |-> <<>>],
              !.skips = [k \in Flows |-> {}],
              !.quiet = [k \in Flows |-> 0]]

(* stop(): close the handle if there is one, forget it and every buffer *)
stop(s) ==
    [s EXCEPT !.openHandles = IF s.cap # Null /\ s.running THEN @ - 1 ELSE @,
              !.cap = Null,
              !.running = FALSE,
              !.buffers = NoBuffers,
              !.stream = [k \in Flows |-> <<>>],
              !.emitted = [k \in Flows |-> <<>>],
              !.skips = [k \in Flows |-> {}],
              !.quiet = [k \in Flows |-> 0]]

(* a variant that does not stop a running capture first *)
startWithoutStop(s, deviceIndex, opens) ==
    LET idx == IF deviceIndex # Undefined THEN deviceIndex ELSE PickDefaultDeviceIndex(devices)
    IN
    IF deviceIndex = Undefined /\ devices = <<>>
    THEN [s EXCEPT !.lastError = "No capture devices found"]
    ELSE IF ~(idx >= 0 /\ idx < Len(devices))
    THEN [s EXCEPT !.lastError = "Invalid device index"]
    ELSE IF ~opens
    THEN [s EXCEPT !.lastError = "open failed", !.hasProcessor = TRUE]
    ELSE [s EXCEPT !.lastError = "none", !.hasProcessor = TRUE, !.cap = idx,
                   !.running = TRUE, !.openHandles = @ + 1]

(* start(deviceIndex, PacketProcessor): deviceIndex is Undefined when it   *)
(* is not an integer; opens is whether cap.open succeeds                   *)
start(s, deviceIndex, opens) ==
    LET s1 == IF s.running THEN stop(s) ELSE s
        idx == IF deviceIndex # Undefined THEN deviceIndex ELSE PickDefaultDeviceIndex(devices)
    IN
    IF deviceIndex = Undefined /\ devices = <<>>
    THEN [s1 EXCEPT !.lastError = "No capture devices found"]
    ELSE IF ~(idx >= 0 /\ idx < Len(devices))
    THEN [s1 EXCEPT !.lastError = "Invalid device index"]
    ELSE IF ~opens
    THEN [s1 EXCEPT !.lastError = "open failed", !.hasProcessor = TRUE]
    ELSE [s1 EXCEPT !.lastError = "none", !.hasProcessor = TRUE, !.cap = idx,
                    !.running = TRUE, !.openHandles = @ + 1]

(* switchDevice(deviceIndex, PacketProcessor) *)
switchDevice(s, deviceIndex, opens) == start(stop(s), deviceIndex, opens)

DeviceIndexes == {Undefined, -1, 1, 2}

Stop ==
    /\ Becomes(stop(Sniffer))
    /\ ncalls' = ncalls + 1
    /\ UNCHANGED << devices, processorVars, serverVars, pending, loop, pc >>

Start(deviceIndex, opens) ==
    /\ Becomes(start(Sniffer, deviceIndex, opens))
    /\ ncalls' = ncalls + 1
    /\ UNCHANGED << devices, processorVars, serverVars, pending, loop, pc >>

SwitchDevice(deviceIndex, opens) ==
    /\ Becomes(switchDevice(Sniffer, deviceIndex, opens))
    /\ ncalls' = ncalls + 1
    /\ UNCHANGED << devices, processorVars, serverVars, pending, loop, pc >>

(* a variant that stores the whole of acc *)
RemainderWhole(acc, offset) == acc

(* a variant that drops what is left when it is too short for a size *)
RemainderIfSize(acc, offset) ==
    IF Len(acc) - offset < 4 THEN <<>>
    ELSE IF offset > 0 THEN Subarray(acc, offset, Len(acc)) ELSE acc

(* offset > 0 ? acc.subarray(offset) : acc *)
Remainder(acc, offset) == IF offset > 0 THEN Subarray(acc, offset, Len(acc)) ELSE acc

(* a variant that keeps one buffer for every flow *)
ReceivedShared(key, payload, acc, r, st) ==
    /\ buffers' = [k \in Flows |-> Remainder(acc, r.offset)]
    /\ stream' = [stream EXCEPT ![key] = @ \o payload]
    /\ emitted' = [emitted EXCEPT ![key] =
                     @ \o [i \in 1..Len(r.frames) |->
                             [at |-> Len(stream[key]) + Len(payload) - Len(acc) + r.frames[i].at,
                              bytes |-> r.frames[i].bytes]]]
    /\ skips' = [skips EXCEPT ![key] =
                     @ \cup { Len(stream[key]) + Len(payload) - Len(acc) + o : o \in r.skipped }]
    /\ sink' = st.calls
    /\ currentUserUuid' = st.uuid
    /\ prevUuid' = currentUserUuid
    /\ notices' = notices + st.notices
    /\ errors' = errors + st.errors
    /\ lastFrames' = st.processed
    /\ depth' = st.maxDepth
    /\ npackets' = npackets + 1
    /\ quiet' = [quiet EXCEPT ![key] = 0]

(* the callback once the loop has run: r is what the loop leaves, st what *)
(* the processor leaves                                                   *)
Received(key, payload, acc, r, st) ==
    /\ buffers' = [k \in DOMAIN buffers \cup {key} |->
                     IF k = key THEN Remainder(acc, r.offset) ELSE buffers[k]]
    /\ stream' = [stream EXCEPT ![key] = @ \o payload]
    /\ emitted' = [emitted EXCEPT ![key] =
                     @ \o [i \in 1..Len(r.frames) |->
                             [at |-> Len(stream[key]) + Len(payload) - Len(acc) + r.frames[i].at,
                              bytes |-> r.frames[i].bytes]]]
    /\ skips' = [skips EXCEPT ![key] =
                     @ \cup { Len(stream[key]) + Len(payload) - Len(acc) + o : o \in r.skipped }]
    /\ sink' = st.calls
    /\ currentUserUuid' = st.uuid
    /\ prevUuid' = currentUserUuid
    /\ notices' = notices + st.notices
    /\ errors' = errors + st.errors
    /\ lastFrames' = st.processed
    /\ depth' = st.maxDepth
    /\ npackets' = npackets + 1
    /\ quiet' = [quiet EXCEPT ![key] = 0]

Accumulated(key, payload, acc) ==
    Received(key, payload, acc, Reassemble(acc),
             ProcessFrames(St(<<>>, currentUserUuid), Reassemble(acc).frames, 1))

(* what the wire has yet to deliver once payload, the head of p, arrived *)
Undelivered(p, payload) ==
    IF Len(p) >= Len(payload) /\ SubSeq(p, 1, Len(payload)) = payload
    THEN SubSeq(p, Len(payload) + 1, Len(p))
    ELSE p

(* cap.on('packet'): one TCP payload (dataLen > 0) of the flow key; the    *)
(* callback is registered on the handle and runs for as long as that      *)
(* handle is open, whatever this.running says                             *)
OnPacket(key, payload) ==
    /\ openHandles > 0 /\ hasProcessor
    /\ payload # <<>>
    /\ Accumulated(key, payload, (IF key \in DOMAIN buffers THEN buffers[key] ELSE <<>>) \o payload)
    /\ pending' = Undelivered(pending, payload)
    /\ UNCHANGED << running, cap, hasProcessor, devices, openHandles, ncalls, lastError,
                   serverVars, loop >>

----------------------------------------------------------------------------
(* What the game sends: frames as the parser reads them *)

Frame(typeAndFlags, content) == U32Bytes(6 + Len(content)) \o U16Bytes(typeAndFlags) \o content

CompressedFlag == 32768

NotifyFrame(service, methodId, payload, compressed) ==
    Frame(MessageType.Notify + (IF compressed THEN CompressedFlag ELSE 0),
          U64Bytes(service[1], service[2]) \o U32Bytes(0) \o U32Bytes(methodId)
          \o (IF compressed THEN ZstdCompress(payload) ELSE payload))

(* a container whose body is a nested envelope (size, type and flags)      *)
(* followed by the packets, compressed when the nested flag says so        *)
EnvelopeFrame(type, nestedType, packets, compressed) ==
    Frame(type, U32Bytes(6 + Len(packets))
                \o U16Bytes(nestedType + (IF compressed THEN CompressedFlag ELSE 0))
                \o (IF compressed THEN ZstdCompress(packets) ELSE packets))

ContainerTypes == {MessageType.Call, MessageType.Echo, MessageType.FrameUp, MessageType.FrameDown}

UnknownMethod == 153

Bodies(registry) == { U16Bytes(i) : i \in 1..Len(registry) }

BadBodies == { << 9 >>, << 255, 255 >>, << 0, 1, 2 >> }

MethodBodies(methodId) ==
    CASE methodId = NotifyMethod.SyncNearEntities -> Bodies(SyncNearEntitiesRegistry)
      [] methodId = NotifyMethod.SyncContainerData -> Bodies(SyncContainerDataRegistry)
      [] methodId = NotifyMethod.SyncContainerDirtyData -> Bodies(SyncContainerDirtyDataRegistry)
      [] methodId = NotifyMethod.SyncServerTime -> Bodies(SyncServerTimeRegistry)
      [] methodId = NotifyMethod.SyncNearDeltaInfo -> Bodies(SyncNearDeltaInfoRegistry)
      [] methodId = NotifyMethod.SyncToMeDeltaInfo -> Bodies(SyncToMeDeltaInfoRegistry)
      [] OTHER -> Bodies(MoveRegistry)

Methods == {NotifyMethod.SyncNearEntities, NotifyMethod.SyncContainerData,
            NotifyMethod.SyncContainerDirtyData, NotifyMethod.SyncServerTime,
            NotifyMethod.SyncNearDeltaInfo, NotifyMethod.SyncToMeDeltaInfo, UnknownMethod}

OtherServices == { << 0, 1 >>, << 1, 1664308034 >>, << 0, 1664308035 >>, << 5, 0 >> }

TrackedNotifyFrames ==
    UNION { { NotifyFrame(ServiceUuid, m, b, c) :
                b \in MethodBodies(m) \cup BadBodies \cup {<<>>}, c \in BOOLEAN } : m \in Methods }

(* a tracked Notify whose compressed payload is no Zstandard frame *)
BrokenNotifyFrames ==
    { Frame(MessageType.Notify + CompressedFlag,
            U64Bytes(ServiceUuid[1], ServiceUuid[2]) \o U32Bytes(0) \o U32Bytes(m) \o U16Bytes(1)) :
        m \in Methods }

UntrackedNotifyFrames ==
    { NotifyFrame(sv, m, b, c) :
        sv \in OtherServices, m \in {NotifyMethod.SyncNearDeltaInfo, NotifyMethod.SyncToMeDeltaInfo, UnknownMethod},
        b \in {U16Bytes(2), << 9 >>}, c \in BOOLEAN }
    \cup { Frame(MessageType.Notify + CompressedFlag,
                 U64Bytes(sv[1], sv[2]) \o U32Bytes(0) \o U32Bytes(NotifyMethod.SyncNearDeltaInfo) \o << 1 >>) :
             sv \in OtherServices }

NearDelta(d) ==
    NotifyFrame(ServiceUuid, NotifyMethod.SyncNearDeltaInfo,
                Encode(SyncNearDeltaInfoRegistry, [DeltaInfos |-> << d >>]), FALSE)

(* the Notify frames that are also sent inside containers *)
CoreNotifyFrames ==
    { NearDelta(d) : d \in Range(CoreDeltas) }
    \cup { NotifyFrame(ServiceUuid, NotifyMethod.SyncToMeDeltaInfo, U16Bytes(i), FALSE) : i \in 1..3 }
    \cup { NotifyFrame(ServiceUuid, NotifyMethod.SyncNearEntities, U16Bytes(i), c) : i \in 1..2, c \in BOOLEAN }
    \cup { NotifyFrame(<< 0, 1 >>, NotifyMethod.SyncNearDeltaInfo, U16Bytes(1), FALSE) }

ReturnFrame == Frame(MessageType.Return, <<>>)

(* a container whose body is one Notify frame, nothing else *)
BareContainerFrames ==
    { Frame(t, n) : t \in ContainerTypes, n \in CoreNotifyFrames }

(* a container with the compression bit on its own envelope and the        *)
(* compressed bytes of one Notify frame as its body                        *)
OuterCompressedFrames ==
    { Frame(t + CompressedFlag, ZstdCompress(n)) : t \in ContainerTypes, n \in CoreNotifyFrames }

EnvelopeFrames ==
    { EnvelopeFrame(t, nt, n, c) :
        t \in ContainerTypes, nt \in {MessageType.None, MessageType.Notify},
        n \in CoreNotifyFrames, c \in BOOLEAN }
    \cup { EnvelopeFrame(t, MessageType.None, n \o ReturnFrame \o m, c) :
             t \in {MessageType.Echo, MessageType.FrameDown},
             n \in { NearDelta(d) : d \in Range(CoreDeltas) },
             m \in { NotifyFrame(ServiceUuid, NotifyMethod.SyncToMeDeltaInfo, U16Bytes(i), FALSE) : i \in 1..2 },
             c \in BOOLEAN }
    \cup { EnvelopeFrame(MessageType.FrameDown, MessageType.None,
                         EnvelopeFrame(t, MessageType.None, n, c), FALSE) :
             t \in ContainerTypes, n \in { NearDelta(d) : d \in Range(CoreDeltas) }, c \in BOOLEAN }
    \cup { EnvelopeFrame(MessageType.Echo + CompressedFlag, nt, n, c) :
             nt \in {MessageType.None, MessageType.Notify}, n \in CoreNotifyFrames, c \in BOOLEAN }
    \cup { Frame(t, U32Bytes(8) \o U16Bytes(CompressedFlag) \o << 1, 2 >>) : t \in ContainerTypes }
    \cup { Frame(t, c) : t \in ContainerTypes, c \in { <<>>, << 0, 0, 0 >> } }

(* f inside n containers, each with a nested envelope of its own *)
RECURSIVE Nest(_, _)
Nest(n, f) ==
    IF n = 0 THEN f ELSE EnvelopeFrame(MessageType.FrameDown, MessageType.None, Nest(n - 1, f), FALSE)

DeepFrames == { Nest(n, NearDelta(CoreDeltas[2])) : n \in 3..6 }

OtherFrames ==
    { Frame(t + f, c) : t \in {MessageType.None, MessageType.Return, 7}, f \in {0, CompressedFlag},
                        c \in { <<>>, << 1, 2, 3 >> } }
    \cup { Frame(MessageType.Notify, c) : c \in { <<>>, << 0, 0, 0, 0, 99, 51, 83, 66 >> } }

(* containers whose nested envelope announces a size that is not that of   *)
(* the body, and a nested type of any kind                                 *)
OddEnvelopeFrames ==
    { Frame(t, U32Bytes(size) \o U16Bytes(nt + (IF c THEN CompressedFlag ELSE 0))
               \o (IF c THEN ZstdCompress(n) ELSE n)) :
        t \in ContainerTypes, size \in {0, 6, 20, 70000}, nt \in {MessageType.Return, MessageType.Echo, 7},
        n \in { NearDelta(CoreDeltas[2]),
                NotifyFrame(ServiceUuid, NotifyMethod.SyncToMeDeltaInfo, U16Bytes(2), FALSE) },
        c \in BOOLEAN }

(* a container with a SyncToMeDeltaInfo of UPlayerB followed by a Notify of *)
(* an unknown method that decodes as a NewMove with a position             *)
MoveAfterToMeFrame ==
    EnvelopeFrame(MessageType.FrameDown, MessageType.None,
                  NotifyFrame(ServiceUuid, NotifyMethod.SyncToMeDeltaInfo, U16Bytes(2), FALSE)
                  \o NotifyFrame(ServiceUuid, UnknownMethod,
                                 Encode(MoveRegistry, [NewMove |-> MoveView(TRUE, TRUE, 10, 1),
                                                       UserControlInfo |-> MoveView(TRUE, TRUE, 20, Null)]),
                                 FALSE),
                  FALSE)

(* every frame the single-frame runs feed *)
FrameInputs ==
    TrackedNotifyFrames \cup BrokenNotifyFrames \cup UntrackedNotifyFrames
    \cup BareContainerFrames \cup OuterCompressedFrames \cup EnvelopeFrames \cup OtherFrames
    \cup DeepFrames \cup OddEnvelopeFrames \cup {MoveAfterToMeFrame}

----------------------------------------------------------------------------
(* What a flow carries in the capture runs: frames, parts of frames, and   *)
(* bytes that are no frame                                                 *)

SampleFrame == NearDelta(Delta(UMonsterA, <<>>, << BaseEvent >>))

(* a frame of 768 bytes *)
LongFrame == Frame(MessageType.Return, [i \in 1..762 |-> 0])

GenuineFrames == { SampleFrame, ReturnFrame, LongFrame }

Garbage == { << 0, 0, 0, 3 >>, << 0, 0, 0, 7 >>, << 255, 0 >> }

StreamPieces ==
    GenuineFrames \cup Garbage
    \cup { SubSeq(SampleFrame, 1, 9), SubSeq(SampleFrame, 10, Len(SampleFrame)),
           ReturnFrame \o SampleFrame }

----------------------------------------------------------------------------
(* The capture runs: any calls of start, stop and switchDevice, and any    *)
(* payloads on the flows while a handle is open                            *)

Packet ==
    /\ npackets < MaxPackets
    /\ \E key \in Flows, payload \in StreamPieces : OnPacket(key, payload)
    /\ UNCHANGED pc

Control ==
    /\ ncalls < MaxCalls
    /\ \/ Stop
       \/ \E deviceIndex \in DeviceIndexes, opens \in BOOLEAN : Start(deviceIndex, opens)
       \/ \E deviceIndex \in DeviceIndexes, opens \in BOOLEAN : SwitchDevice(deviceIndex, opens)

Next == Packet \/ Control

Spec == Init /\ [][Next]_vars

----------------------------------------------------------------------------
(* The single-frame runs: a started sniffer with empty flows receives one  *)
(* payload holding one frame.  currentUserUuid is what earlier frames may  *)
(* have left.                                                              *)

(* the frame that made UPlayerA the local player, before a switchDevice *)
ToMeFrame ==
    NotifyFrame(ServiceUuid, NotifyMethod.SyncToMeDeltaInfo,
                Encode(SyncToMeDeltaInfoRegistry,
                       [HasDeltaInfo |-> TRUE, Uuid |-> UPlayerA, HasBaseDelta |-> FALSE,
                        BaseDelta |-> EmptyDelta]), FALSE)

InitFrame ==
    /\ running = TRUE
    /\ cap = 0
    /\ buffers = NoBuffers
    /\ hasProcessor = TRUE
    /\ devices = << Device(TRUE, FALSE) >>
    /\ openHandles = 1
    /\ \/ /\ currentUserUuid = LongZero
          /\ notices = 0 /\ npackets = 0 /\ ncalls = 1 /\ lastFrames = <<>>
       \/ /\ currentUserUuid = UPlayerA
          /\ notices = 1 /\ npackets = 1 /\ ncalls = 2 /\ lastFrames = << ToMeFrame >>
    /\ errors = 0
    /\ sink = <<>>
    /\ stream = [k \in Flows |-> <<>>]
    /\ emitted = [k \in Flows |-> <<>>]
    /\ skips = [k \in Flows |-> {}]
    /\ prevUuid = LongZero
    /\ lastError = "none"
    /\ depth = 0
    /\ quiet = [k \in Flows |-> 0]
    /\ selectedDevice = Undefined
    /\ live = FALSE
    /\ status = Null
    /\ pending = <<>>
    /\ loop = NoLoop
    /\ pc = "ready"

NextFrame ==
    /\ pc = "ready"
    /\ \E frame \in FrameInputs : OnPacket("a>b", frame)
    /\ pc' = "done"

SpecFrame == InitFrame /\ [][NextFrame]_vars

----------------------------------------------------------------------------
(* The error runs: a started sniffer receives payloads that hold frames    *)
(* which fail in processPacket, alone, followed by a good frame, or        *)
(* followed by the head of one, and payloads of four bytes that read as a  *)
(* size at the limits of the size test.                                    *)

(* a tracked Notify whose compressed payload is no Zstandard frame *)
BrokenFrame ==
    Frame(MessageType.Notify + CompressedFlag,
          U64Bytes(ServiceUuid[1], ServiceUuid[2]) \o U32Bytes(0)
          \o U32Bytes(NotifyMethod.SyncNearDeltaInfo) \o U16Bytes(1))

(* a tracked Notify whose body is no message of its schema *)
BadSchemaFrame == NotifyFrame(ServiceUuid, NotifyMethod.SyncNearDeltaInfo, << 9 >>, FALSE)

(* a Notify too short for its header *)
ShortNotifyFrame == Frame(MessageType.Notify, << 0, 0, 0 >>)

(* a SyncToMeDeltaInfo without DeltaInfo: the handler throws *)
NoDeltaInfoFrame == NotifyFrame(ServiceUuid, NotifyMethod.SyncToMeDeltaInfo, <<>>, FALSE)

(* a container whose compressed nested body is no Zstandard frame *)
BrokenContainer == Frame(MessageType.Echo, U32Bytes(8) \o U16Bytes(CompressedFlag) \o << 1, 2 >>)

(* a container too short for its nested envelope *)
TruncatedContainer == Frame(MessageType.FrameDown, << 0, 0, 0 >>)

(* a container whose body is BrokenFrame followed by SampleFrame *)
SiblingContainer ==
    EnvelopeFrame(MessageType.Echo, MessageType.None, BrokenFrame \o SampleFrame, FALSE)

FailingFrames == { BrokenFrame, BadSchemaFrame, ShortNotifyFrame, NoDeltaInfoFrame,
                   BrokenContainer, TruncatedContainer, SiblingContainer }

SequelFrames == { BrokenFrame, BadSchemaFrame, BrokenContainer }

(* four bytes that read as a size at the limits of the size test: 5, 6     *)
(* (a whole frame), 2 MiB and 2 MiB + 1                                    *)
LimitPieces == { U32Bytes(5), ReturnFrame, U32Bytes(MaxFrame), U32Bytes(MaxFrame + 1) }

FlowPieces ==
    FailingFrames
    \cup { SampleFrame, SubSeq(SampleFrame, 10, Len(SampleFrame)) }
    \cup { f \o SampleFrame : f \in SequelFrames }
    \cup { f \o SubSeq(SampleFrame, 1, 9) : f \in SequelFrames }
    \cup LimitPieces

InitFlow ==
    /\ running = TRUE
    /\ cap = 0
    /\ buffers = NoBuffers
    /\ hasProcessor = TRUE
    /\ devices = << Device(TRUE, FALSE) >>
    /\ openHandles = 1
    /\ currentUserUuid = LongZero
    /\ notices = 0
    /\ npackets = 0
    /\ ncalls = 1
    /\ lastFrames = <<>>
    /\ errors = 0
    /\ sink = <<>>
    /\ stream = [k \in Flows |-> <<>>]
    /\ emitted = [k \in Flows |-> <<>>]
    /\ skips = [k \in Flows |-> {}]
    /\ prevUuid = LongZero
    /\ lastError = "none"
    /\ depth = 0
    /\ quiet = [k \in Flows |-> 0]
    /\ selectedDevice = Undefined
    /\ live = FALSE
    /\ status = Null
    /\ pending = <<>>
    /\ loop = NoLoop
    /\ pc = "flow"

NextFlow ==
    /\ pc = "flow"
    /\ npackets < MaxPackets
    /\ \E key \in Flows, payload \in FlowPieces : OnPacket(key, payload)
    /\ UNCHANGED pc

SpecFlow == InitFlow /\ [][NextFlow]_vars

----------------------------------------------------------------------------
(* Properties of the reassembler, over the capture runs (Spec)             *)

(* what the flow retains, and how many bytes of its stream are consumed *)
Retained(k) == IF k \in DOMAIN buffers THEN buffers[k] ELSE <<>>

Consumed(k) == Len(stream[k]) - Len(Retained(k))

Covers(e, o) == e.at <= o /\ o < e.at + Len(e.bytes)

RECURSIVE TotalLength(_, _)
TotalLength(frames, i) ==
    IF i > Len(frames) THEN 0 ELSE Len(frames[i].bytes) + TotalLength(frames, i + 1)

PartitionOf(k) ==
    LET frames == emitted[k] IN
    /\ Consumed(k) >= 0
    /\ Retained(k) = Subarray(stream[k], Consumed(k), Len(stream[k]))
    /\ \A i \in DOMAIN frames :
          /\ frames[i].at >= 0
          /\ frames[i].at + Len(frames[i].bytes) <= Consumed(k)
          /\ frames[i].bytes = Subarray(stream[k], frames[i].at, frames[i].at + Len(frames[i].bytes))
          /\ Len(frames[i].bytes) >= 4
          /\ Len(frames[i].bytes) = ReadUInt32BE(frames[i].bytes, 0)
          /\ i > 1 => frames[i - 1].at + Len(frames[i - 1].bytes) <= frames[i].at
    /\ skips[k] \subseteq 0..(Consumed(k) - 1)
    /\ \A o \in skips[k] : \A i \in DOMAIN frames : ~Covers(frames[i], o)
    /\ Cardinality(skips[k]) + TotalLength(frames, 1) = Consumed(k)

(* a packet callback hands processPacket the frames it adds to one flow,   *)
(* each once and in order, and no flow loses a frame                       *)
DispatchedOnce ==
    npackets' = npackets + 1 =>
        \E k \in Flows :
            /\ Len(emitted'[k]) = Len(emitted[k]) + Len(lastFrames')
            /\ \A i \in DOMAIN emitted[k] : emitted'[k][i] = emitted[k][i]
            /\ \A i \in DOMAIN lastFrames' : emitted'[k][Len(emitted[k]) + i].bytes = lastFrames'[i]
            /\ \A j \in Flows \ {k} : emitted'[j] = emitted[j]

(* C1: on every flow the consumed bytes are partitioned into the emitted   *)
(* frames, each as long as its own big-endian u32 prefix says, and the     *)
(* bytes skipped one at a time; no byte lies in two frames, and a frame is *)
(* passed to processPacket exactly once.                                   *)
C1_ConsumedBytesPartitioned ==
    /\ [](\A k \in Flows : PartitionOf(k))
    /\ [][DispatchedOnce]_vars

(* C1 witness: a flow with a skipped byte, an emitted frame and retained bytes *)
C1_Witness ==
    \E k \in Flows :
        /\ skips[k] # {}
        /\ emitted[k] # <<>>
        /\ Retained(k) # <<>>
        /\ lastFrames # <<>>

HasPrefix(str, prefix) ==
    Len(str) >= Len(prefix) /\ SubSeq(str, 1, Len(prefix)) = prefix

(* no four bytes of G followed by F that start inside G read as a length   *)
(* from 6 to 2 MiB                                                         *)
NoLengthInside(G, F) ==
    \A o \in 0..(Len(G) - 1) :
        LET len == ReadUInt32BE(G \o F, o) IN len < 6 \/ len > 2097152

(* C2 as stated: whatever G is, once G and F are in the stream F has been  *)
(* passed to processPacket and nothing else from those bytes has.          *)
C2_AnyGarbageThenFrame ==
    \A k \in Flows, G \in Garbage, F \in GenuineFrames :
        HasPrefix(stream[k], G \o F) =>
            /\ \E i \in DOMAIN emitted[k] : emitted[k][i] = [at |-> Len(G), bytes |-> F]
            /\ \A i \in DOMAIN emitted[k] :
                  emitted[k][i].at < Len(G) + Len(F) => emitted[k][i] = [at |-> Len(G), bytes |-> F]

(* C2: when no four bytes starting inside G read as an acceptable length,  *)
(* G followed by F on an empty flow has every byte of G skipped and F      *)
(* passed to processPacket as the first frame.                             *)
C2_CleanGarbageThenFrame ==
    \A k \in Flows, G \in Garbage, F \in GenuineFrames :
        (NoLengthInside(G, F) /\ HasPrefix(stream[k], G \o F)) =>
            /\ emitted[k] # <<>>
            /\ emitted[k][1] = [at |-> Len(G), bytes |-> F]
            /\ (0..(Len(G) - 1)) \subseteq skips[k]

(* C2 witness: garbage without an acceptable length, then a frame, emitted *)
C2_Witness ==
    \E k \in Flows, G \in Garbage, F \in GenuineFrames :
        /\ NoLengthInside(G, F)
        /\ stream[k] = G \o F
        /\ emitted[k] = << [at |-> Len(G), bytes |-> F] >>
        /\ lastFrames = << F >>

(* C3 as stated: after 00 00 00 03 and F the loop has skipped four bytes   *)
(* and emitted F alone.                                                    *)
C3_FourSkipsThenFrame ==
    \A k \in Flows, F \in GenuineFrames :
        stream[k] = << 0, 0, 0, 3 >> \o F =>
            /\ skips[k] = 0..3
            /\ emitted[k] = << [at |-> 4, bytes |-> F] >>

(* C3: after 00 00 00 03 and F the loop skips the byte at offset 0 only,   *)
(* reads 00 00 03 00 at offset 1 as the length 768 and waits for 768 bytes *)
(* from offset 1; when they are there it emits them as the first frame.    *)
(* F is not emitted.                                                       *)
C3_OneSkipThenBlockOf768 ==
    \A k \in Flows, F \in GenuineFrames :
        HasPrefix(stream[k], << 0, 0, 0, 3 >> \o F) =>
            /\ 0 \in skips[k]
            /\ skips[k] \cap (1..768) = {}
            /\ \A i \in DOMAIN emitted[k] : emitted[k][i].at # 4
            /\ IF Len(stream[k]) < 769
               THEN emitted[k] = <<>> /\ Retained(k) = Subarray(stream[k], 1, Len(stream[k]))
               ELSE emitted[k] # <<>>
                    /\ emitted[k][1] = [at |-> 1, bytes |-> Subarray(stream[k], 1, 769)]

(* C3 witness: 00 00 00 03 and a frame of 768 bytes: the block from offset 1 *)
C3_Witness ==
    \E k \in Flows :
        /\ stream[k] = << 0, 0, 0, 3 >> \o LongFrame
        /\ skips[k] = {0}
        /\ Len(emitted[k]) = 1
        /\ emitted[k][1].at = 1
        /\ Len(emitted[k][1].bytes) = 768

----------------------------------------------------------------------------
(* Properties of processPacket, over the single-frame runs (SpecFrame)     *)

(* the last callback passed exactly one frame to processPacket: TheFrame *)
OneFrame == Len(lastFrames) = 1

TheFrame == lastFrames[1]

(* what processPacket does on frame f alone, from the same local player *)
Alone(f) == ProcessPacket(St(<<>>, prevUuid), f)

SameAsAlone(f) ==
    /\ sink = Alone(f).calls
    /\ currentUserUuid = Alone(f).uuid

TypeAndFlags(f) == ReadUInt16BE(f, 4)

IsContainerFrame(f) == Len(f) >= 6 /\ (TypeAndFlags(f) % 32768) \in {1, 4, 5, 6}

(* C4 as stated: a container whose body is the Notify frame N itself makes *)
(* the sink calls of N.                                                    *)
C4_BareNotifyInContainer ==
    (OneFrame /\ IsContainerFrame(TheFrame) /\ TypeAndFlags(TheFrame) < 32768
     /\ Subarray(TheFrame, 6, Len(TheFrame)) \in CoreNotifyFrames)
        => sink = Alone(Subarray(TheFrame, 6, Len(TheFrame))).calls

(* C4: a container (Call, Echo, FrameUp, FrameDown) whose body is a nested *)
(* envelope of 6 bytes with the compression bit clear, followed by one     *)
(* well-formed Notify frame N, makes the sink calls of N alone and leaves  *)
(* the same local player.                                                  *)
C4_EnvelopedNotifyInContainer ==
    (OneFrame /\ IsContainerFrame(TheFrame) /\ Len(TheFrame) >= 12
     /\ ReadUInt16BE(TheFrame, 10) < 32768
     /\ Subarray(TheFrame, 12, Len(TheFrame)) \in CoreNotifyFrames)
        => SameAsAlone(Subarray(TheFrame, 12, Len(TheFrame)))

(* C4 witness: such a container, of type FrameDown, that made sink calls *)
C4_Witness ==
    /\ pc = "done"
    /\ OneFrame /\ Len(TheFrame) >= 12
    /\ TypeAndFlags(TheFrame) = 6
    /\ ReadUInt16BE(TheFrame, 10) < 32768
    /\ Subarray(TheFrame, 12, Len(TheFrame)) \in CoreNotifyFrames
    /\ sink # <<>>

IsNotifyFrame(f) == Len(f) >= 22 /\ TypeAndFlags(f) % 32768 = 2

HasTrackedId(f) == ReadUInt64BE(f, 6) = << 0, 1664308034 >>

(* the Notify frame with the header of f and the body B, bit clear *)
WithPlainBody(f, B) == Frame(2, SubSeq(f, 7, 22) \o B)

C7_UntrackedNotifyIgnored ==
    (OneFrame /\ IsNotifyFrame(TheFrame) /\ ~HasTrackedId(TheFrame))
        => /\ sink = <<>>
           /\ currentUserUuid = prevUuid
           /\ errors = 0

(* C7 witness: service id 0x0000000163335342, compression bit set, a      *)
(* payload that is no compressed block                                     *)
C7_Witness ==
    /\ pc = "done"
    /\ OneFrame /\ IsNotifyFrame(TheFrame)
    /\ ReadUInt64BE(TheFrame, 6) = << 1, 1664308034 >>
    /\ TypeAndFlags(TheFrame) >= 32768
    /\ ~ZstdValid(Subarray(TheFrame, 22, Len(TheFrame)))
    /\ sink = <<>>

----------------------------------------------------------------------------
(* Properties of the entity classification and of the damage pairing       *)

(* the frame is an uncompressed tracked SyncNearDeltaInfo with one delta:  *)
(* InputDelta                                                              *)
HasInputDelta ==
    /\ OneFrame /\ Len(TheFrame) = 24
    /\ TypeAndFlags(TheFrame) = 2
    /\ HasTrackedId(TheFrame)
    /\ ReadUInt32BE(TheFrame, 18) = 45
    /\ ReadUInt16BE(TheFrame, 22) \in 1..Len(AllDeltas)

InputDelta == AllDeltas[ReadUInt16BE(TheFrame, 22)]

(* ... with one damage event: InputEvent *)
HasInputEvent == HasInputDelta /\ Len(InputDelta.Events) = 1

InputEvent == InputDelta.Events[1]

(* the frame is an uncompressed tracked SyncNearEntities with one entity *)
HasInputEntity ==
    /\ OneFrame /\ Len(TheFrame) = 24
    /\ TypeAndFlags(TheFrame) = 2
    /\ HasTrackedId(TheFrame)
    /\ ReadUInt32BE(TheFrame, 18) = 6
    /\ ReadUInt16BE(TheFrame, 22) \in 5..Len(SyncNearEntitiesRegistry)

InputEntity == SyncNearEntitiesRegistry[ReadUInt16BE(TheFrame, 22)].Entities[1]

(* the class of a uuid by its low 16 bits *)
ClassOf(uuid) ==
    IF uuid = Null THEN "absent"
    ELSE IF uuid % 65536 = 1 THEN "player"
    ELSE IF uuid % 65536 = 2 THEN "monster"
    ELSE "ignored"

(* the attacker of an event: TopSummonerId when it is non-zero *)
LogicalAttacker(ev) ==
    IF ev.TopSummonerId # Null /\ ev.TopSummonerId # 0 THEN ev.TopSummonerId ELSE ev.AttackerUuid

PlayerOps == {"setName", "setProfession", "setFightPoint", "setLevel", "processDamageToPlayer"}

MonsterOps == {"setEnemyName", "setEnemyId", "setEnemyHp", "setEnemyMaxHp", "setEnemyReductionLevel",
               "setEnemyReductionId", "setEnemyElement", "addEnemy"}

DamageOps == {"processPlayerDamage", "processDamageToPlayer"}

DamageCalls == { i \in DOMAIN sink : sink[i].op \in DamageOps }

SampleUuids == (Range(TargetUuids) \cup Range(AttackerUuids) \cup Range(SummonerUuids)) \ {Null}

C9_SameClassPairNoDamage ==
    (HasInputEvent /\ ClassOf(LogicalAttacker(InputEvent)) = ClassOf(InputDelta.Uuid)
     /\ ClassOf(InputDelta.Uuid) \in {"player", "monster"})
        => DamageCalls = {}

(* C10 as stated: a damage call is made only for a player attacker with a   *)
(* monster target (processPlayerDamage) and a monster attacker with a       *)
(* player target (processDamageToPlayer); an event whose attacker or target *)
(* is of unknown class makes no sink call.                                  *)
C10_OnlyCrossClassPairs ==
    HasInputEvent =>
        LET a == ClassOf(LogicalAttacker(InputEvent))
            t == ClassOf(InputDelta.Uuid)
        IN
        /\ \A i \in DamageCalls :
              \/ sink[i].op = "processPlayerDamage" /\ a = "player" /\ t = "monster"
              \/ sink[i].op = "processDamageToPlayer" /\ a = "monster" /\ t = "player"
        /\ (a = "ignored" \/ t = "ignored") => sink = <<>>

----------------------------------------------------------------------------
(* Properties of the emitted damage events                                 *)

(* bit b (given by its value 1, 2, 4, ...) of the non-negative n is set *)
BitSet(n, b) == n % (2 * b) >= b

(* C11: in every damage call the event makes, isCrit is true exactly when  *)
(* bit 0 of TypeFlag is set and isCauseLucky exactly when bit 2 (value 4)  *)
(* is set; both are false when TypeFlag is absent.                         *)
C11_CritAndLuckyFromTypeFlag ==
    HasInputEvent =>
        \A i \in DamageCalls :
            /\ sink[i].damage.isCrit <=>
                  (InputEvent.TypeFlag # Null /\ BitSet(InputEvent.TypeFlag, 1))
            /\ sink[i].damage.isCauseLucky <=>
                  (InputEvent.TypeFlag # Null /\ BitSet(InputEvent.TypeFlag, 4))

(* C11 witness: a player hit with TypeFlag 6: lucky cause, no crit *)
C11_Witness ==
    /\ pc = "done"
    /\ HasInputEvent
    /\ InputEvent.TypeFlag = 6
    /\ Len(sink) = 1
    /\ sink[1].op = "processDamageToPlayer"
    /\ sink[1].damage.isCauseLucky
    /\ ~sink[1].damage.isCrit

----------------------------------------------------------------------------
(* Properties of the capture control, over the capture runs (Spec)         *)

(* the step is a call of switchDevice *)
SwitchStep == \E deviceIndex \in DeviceIndexes, opens \in BOOLEAN : SwitchDevice(deviceIndex, opens)

(* a switchDevice call leaves no flow buffer and no handle but the one it  *)
(* opens                                                                   *)
SwitchClosesAndClears ==
    SwitchStep =>
        /\ buffers' = NoBuffers
        /\ openHandles' = IF running' THEN 1 ELSE 0
        /\ running' <=> cap' # Null

(* a packet callback passes frames made of bytes of its flow's stream, the *)
(* bytes captured since the last stop, only                                *)
FramesOfStream ==
    npackets' = npackets + 1 =>
        \E k \in Flows :
            /\ Len(emitted'[k]) >= Len(lastFrames')
            /\ \A i \in DOMAIN lastFrames' :
                  LET e == emitted'[k][Len(emitted'[k]) - Len(lastFrames') + i] IN
                  /\ e.bytes = lastFrames'[i]
                  /\ e.at >= 0
                  /\ e.bytes = Subarray(stream'[k], e.at, e.at + Len(e.bytes))
                  /\ e.at + Len(e.bytes) <= Len(stream'[k])

(* C12: switchDevice closes the handle that was open and empties the whole *)
(* flow-buffer map before it opens the new handle; no frame passed to      *)
(* processPacket afterwards holds a byte captured before the switch.       *)
C12_SwitchDropsEarlierBytes ==
    /\ [][SwitchClosesAndClears]_vars
    /\ [][FramesOfStream]_vars

(* C12 witness: two payloads and two calls, the second a switchDevice that *)
(* dropped the head of a frame: the tail that came after it is alone in    *)
(* its flow and made no frame                                              *)
C12_Witness ==
    /\ running /\ ncalls = 2 /\ npackets = 2
    /\ stream["a>b"] = SubSeq(SampleFrame, 10, Len(SampleFrame))
    /\ stream["b>a"] = <<>>
    /\ emitted["a>b"] = <<>>
    /\ lastFrames = <<>>
    /\ Len(Retained("a>b")) < Len(stream["a>b"])

----------------------------------------------------------------------------
(* Properties of the envelope parser: nesting and errors                   *)

(* C13 as stated: processPacket never re-enters itself more than 4 deep.   *)
C13_NestingAtMost4 == depth <= 4

(* a frame of six containers, one inside the other, is parsed down to the  *)
(* Notify in the innermost and its damage call is made                     *)
DeepNestingReached ==
    /\ pc = "done"
    /\ OneFrame
    /\ TheFrame = Nest(6, NearDelta(CoreDeltas[2]))
    /\ depth = 6
    /\ Len(sink) = 1
    /\ sink[1].op = "processDamageToPlayer"

----------------------------------------------------------------------------
(* Properties of the error handling, over the error runs (SpecFlow)        *)

(* where the bytes a flow retains begin: after its last emitted frame and  *)
(* the bytes skipped behind it                                             *)
AfterLastFrame(k) ==
    LET last == emitted[k][Len(emitted[k])]
        end == last.at + Len(last.bytes)
    IN end + Cardinality({ o \in skips[k] : o >= end })

(* a callback in which processPacket logged an error: the capture goes on, *)
(* every complete frame of the flow was handed to processPacket, and the   *)
(* flow keeps the bytes behind the last of them; no other flow is touched  *)
SurvivesError ==
    (npackets' = npackets + 1 /\ errors' > errors) =>
        /\ running' /\ cap' = cap /\ cap' # Null /\ openHandles' = openHandles
        /\ \E k \in Flows :
              /\ stream'[k] # stream[k]
              /\ \A j \in Flows \ {k} : j \in DOMAIN buffers => (j \in DOMAIN buffers' /\ buffers'[j] = buffers[j])
              /\ k \in DOMAIN buffers'
              /\ lastFrames' # <<>>
              /\ Len(emitted'[k]) = Len(emitted[k]) + Len(lastFrames')
              /\ buffers'[k] = Subarray(stream'[k], AfterLastFrame(k)', Len(stream'[k]))

(* C14: an error raised while a frame is parsed, decompressed, routed,     *)
(* decoded or dispatched does not leave the packet callback: the capture   *)
(* is still running, the frames behind the failed one are still handed to  *)
(* processPacket and the flow's buffer holds exactly the bytes after the   *)
(* last complete frame; it is not emptied or removed.                      *)
C14_ErrorsStayInsideCallback == [][SurvivesError]_vars

(* C14 witness: a frame that fails to decompress, then the head of the next *)
(* frame: the error is logged and the head is retained                      *)
C14_Witness ==
    /\ pc = "flow"
    /\ running
    /\ errors = 1
    /\ lastFrames = << BrokenFrame >>
    /\ stream["a>b"] = BrokenFrame \o SubSeq(SampleFrame, 1, 9)
    /\ buffers["a>b"] = SubSeq(SampleFrame, 1, 9)

(* C15 as stated: a frame whose payload fails to decompress makes no sink  *)
(* call, and the frame behind it is still dispatched, be it the next frame *)
(* of the flow, of the same payload, or of the same container body.        *)
C15_NextFrameAfterFailedDecompression ==
    /\ lastFrames = << BrokenFrame >> => sink = <<>>
    /\ lastFrames = << BrokenFrame, SampleFrame >> => sink = Alone(SampleFrame).calls
    /\ lastFrames = << BrokenContainer, SampleFrame >> => sink = Alone(SampleFrame).calls
    /\ (lastFrames = << SampleFrame >> /\ errors > 0) => sink = Alone(SampleFrame).calls
    /\ lastFrames = << SiblingContainer >> => sink = Alone(SampleFrame).calls

(* the frame behind a failed one is dispatched when it is the next frame   *)
(* of the flow or of the payload                                           *)
NextFrameOfFlowDispatched ==
    /\ lastFrames = << BrokenFrame >> => sink = <<>>
    /\ lastFrames = << BrokenFrame, SampleFrame >> => sink = Alone(SampleFrame).calls
    /\ lastFrames = << BrokenContainer, SampleFrame >> => sink = Alone(SampleFrame).calls
    /\ (lastFrames = << SampleFrame >> /\ errors > 0) => sink = Alone(SampleFrame).calls

(* a good frame behind a failed one in the same payload made its call *)
SequelDispatched ==
    /\ lastFrames = << BrokenFrame, SampleFrame >>
    /\ errors = 1
    /\ Len(sink) = 1
    /\ sink[1].op = "processPlayerDamage"

(* a container body of a failing frame and a good one made no call *)
SiblingDropped ==
    /\ lastFrames = << SiblingContainer >>
    /\ errors = 1
    /\ sink = <<>>

----------------------------------------------------------------------------
(* Properties of the attribute patching, over the single-frame runs        *)

U32AttrIds == {220, 10030, 10000, 10, 11310, 11320, 6580589, 7302245, 6581612}

(* the attribute's data cannot be decoded: fewer than four bytes for a     *)
(* u32, a string blob shorter than its 8-byte header or than the length it *)
(* declares plus its 12 bytes of framing                                   *)
Undecodable(attr) ==
    \/ /\ attr.AttrId \in U32AttrIds
       /\ Len(attr.AttrData) < 4
    \/ /\ attr.AttrId = 1
       /\ \/ Len(attr.AttrData) < 8
          \/ Len(attr.AttrData) < ReadUInt32LE(attr.AttrData, 0) + 12

(* the sink calls of the list that holds the attribute alone *)
SingleCalls(uuid, attr) ==
    IF uuid % 65536 = 1 THEN ProcessPlayerAttrs(uuid \div 65536, << attr >>)
    ELSE IF uuid % 65536 = 2 THEN ProcessEnemyAttrs(uuid \div 65536, << attr >>)
    ELSE <<>>

Setters(calls) == SelectSeq(calls, LAMBDA c : c.op # "addEnemy")

RECURSIVE SinglesFrom(_, _, _)
SinglesFrom(uuid, attrs, i) ==
    IF i > Len(attrs) THEN <<>>
    ELSE Setters(SingleCalls(uuid, attrs[i])) \o SinglesFrom(uuid, attrs, i + 1)

(* C16: an attribute whose data cannot be decoded makes no sink call, and  *)
(* the setter calls of an attribute list are those each attribute makes on *)
(* its own, in list order: the attributes before and after an undecodable  *)
(* one are decoded and pushed as if it were not there.                     *)
C16_AttributeFailureIsLocal ==
    (HasInputDelta /\ InputDelta.Uuid # Null /\ InputDelta.Events = <<>>) =>
        /\ \A i \in DOMAIN InputDelta.Attrs :
              Undecodable(InputDelta.Attrs[i]) => SingleCalls(InputDelta.Uuid, InputDelta.Attrs[i]) = <<>>
        /\ Setters(sink) = SinglesFrom(InputDelta.Uuid, InputDelta.Attrs, 1)

(* C16 witness: a player list of five attributes, the second and fourth    *)
(* too short: the setters of the first, third and fifth, in this order     *)
C16_Witness ==
    /\ pc = "done"
    /\ HasInputDelta
    /\ InputDelta.Uuid = UPlayerA
    /\ Len(InputDelta.Attrs) = 5
    /\ Undecodable(InputDelta.Attrs[2])
    /\ Undecodable(InputDelta.Attrs[4])
    /\ Len(sink) = 3
    /\ sink[1].op = "setName"
    /\ sink[2].op = "setFightPoint"
    /\ sink[3].op = "setLevel"

(* a monster list of seven attributes, three of them too short: the four   *)
(* setters in list order, then addEnemy                                    *)
MonsterListPatched ==
    /\ pc = "done"
    /\ HasInputDelta
    /\ InputDelta.Uuid = UMonsterA
    /\ Len(InputDelta.Attrs) = 7
    /\ Len(sink) = 5
    /\ sink[1].op = "setEnemyMaxHp"
    /\ sink[2].op = "setEnemyName"
    /\ sink[3].op = "setEnemyElement"
    /\ sink[4].op = "setEnemyReductionId"
    /\ sink[5].op = "addEnemy"

----------------------------------------------------------------------------
(* The single damage frame                                                 *)

ElementLabels == << "None", "Fire", "Ice", "Poison", "Thunder", "Wind", "Rock", "Light", "Dark" >>

ElementLabel(property) ==
    IF property \in 0..8 THEN ElementLabels[property + 1] ELSE "Unknown"

(* the frame holds one delta with a monster target and one event that      *)
(* carries a player AttackerUuid, a non-zero Value, a TypeFlag and a       *)
(* Property, and none of the fields the scenario does not name (OwnerId    *)
(* apart)                                                                  *)
IsScenarioFrame ==
    /\ HasInputEvent
    /\ InputDelta.Uuid # Null /\ InputDelta.Uuid % 65536 = 2
    /\ InputDelta.Attrs = <<>>
    /\ InputEvent.AttackerUuid # Null /\ InputEvent.AttackerUuid % 65536 = 1
    /\ InputEvent.Value # Null /\ InputEvent.Value # 0
    /\ InputEvent.TypeFlag # Null
    /\ InputEvent.Property # Null
    /\ InputEvent.TopSummonerId = Null /\ InputEvent.LuckyValue = Null
    /\ InputEvent.Type = Null /\ InputEvent.IsMiss = Null /\ InputEvent.IsDead = Null
    /\ InputEvent.HpLessenValue = Null /\ InputEvent.DamageSource = Null

(* exactly one sink call: processPlayerDamage for the attacker, with the   *)
(* event's value, crit bit and element label                               *)
OneScenarioCall ==
    /\ Len(sink) = 1
    /\ sink[1].op = "processPlayerDamage"
    /\ sink[1].uid = InputEvent.AttackerUuid \div 65536
    /\ sink[1].damage.value = InputEvent.Value
    /\ sink[1].damage.isCrit = BitSet(InputEvent.TypeFlag, 1)
    /\ sink[1].damage.damageElement = ElementLabel(InputEvent.Property)

----------------------------------------------------------------------------
(* Order of delivery and size of the flow buffers, over the capture runs   *)

(* a packet callback passes the frames it completes in the order of their  *)
(* start offsets in the flow's stream, all of them behind the frames the   *)
(* flow has passed before                                                  *)
InOffsetOrder ==
    npackets' = npackets + 1 =>
        \E k \in Flows :
            /\ stream'[k] # stream[k]
            /\ Len(emitted'[k]) = Len(emitted[k]) + Len(lastFrames')
            /\ \A i \in DOMAIN lastFrames' :
                  LET e == emitted'[k][Len(emitted[k]) + i] IN
                  /\ lastFrames'[i] = Subarray(stream'[k], e.at, e.at + Len(lastFrames'[i]))
                  /\ i > 1 => emitted'[k][Len(emitted[k]) + i - 1].at < e.at
                  /\ \A j \in DOMAIN emitted[k] : emitted[k][j].at < e.at

(* C18: within one flow, complete frames are passed to processPacket in    *)
(* increasing order of their start offset in the observed byte stream.     *)
C18_FramesInStreamOrder == [][InOffsetOrder]_vars

(* C18 witness: a frame, then a payload of two frames on the same flow:    *)
(* three frames at offsets 0, 24 and 30, the last two passed in this order *)
C18_Witness ==
    \E k \in Flows :
        /\ Len(emitted[k]) = 3
        /\ lastFrames = << ReturnFrame, SampleFrame >>
        /\ emitted[k][1].at = 0
        /\ emitted[k][2] = [at |-> 24, bytes |-> ReturnFrame]
        /\ emitted[k][3] = [at |-> 30, bytes |-> SampleFrame]

(* C19: the byte length of every flow buffer is at most the per-flow cap   *)
(* of 4 MiB, with room for the largest captured payload (65535 bytes): a   *)
(* retained buffer of four bytes or more begins with a size from 6 to      *)
(* 2 MiB and is shorter than that size.  No buffer comes to exceed the     *)
(* cap, so no flow is discarded for its size.                              *)
C19_FlowBufferWithinCap ==
    \A k \in DOMAIN buffers :
        /\ Len(buffers[k]) + 65535 <= 4 * 1024 * 1024
        /\ Len(buffers[k]) >= 4 =>
              /\ ReadUInt32BE(buffers[k], 0) >= 6
              /\ ReadUInt32BE(buffers[k], 0) <= 2 * 1024 * 1024
              /\ Len(buffers[k]) < ReadUInt32BE(buffers[k], 0)

(* C19 witness: a flow that retains 27 bytes while it waits for 768 *)
C19_Witness ==
    \E k \in DOMAIN buffers :
        /\ Len(buffers[k]) = 27
        /\ ReadUInt32BE(buffers[k], 0) = 768
        /\ npackets = 2

(* C20 as stated: start fails with the device-unavailable error whenever   *)
(* the device list is empty, whatever the index, and with the              *)
(* device-invalid error whenever the list is not empty and the index is    *)
(* outside it; no handle is opened and running is false.                   *)
StartFailsByDeviceList ==
    \A deviceIndex \in DeviceIndexes :
        (\E opens \in BOOLEAN : Start(deviceIndex, opens)) =>
            /\ devices = <<>> =>
                  /\ lastError' = "No capture devices found"
                  /\ ~running' /\ cap' = Null /\ openHandles' = 0
            /\ (devices # <<>> /\ deviceIndex # Undefined
                /\ (deviceIndex < 0 \/ deviceIndex >= Len(devices))) =>
                  /\ lastError' = "Invalid device index"
                  /\ ~running' /\ cap' = Null /\ openHandles' = 0

C20_StartFailsByDeviceList == [][StartFailsByDeviceList]_vars

(* what start does: the device-unavailable error only when the index is no *)
(* integer and the list is empty; the device-invalid error for every       *)
(* integer index outside the list, the empty list included; in both cases  *)
(* no handle is open afterwards and running is false                       *)
StartFailsByIndex ==
    \A deviceIndex \in DeviceIndexes :
        (\E opens \in BOOLEAN : Start(deviceIndex, opens)) =>
            /\ (devices = <<>> /\ deviceIndex = Undefined) =>
                  /\ lastError' = "No capture devices found"
                  /\ ~running' /\ cap' = Null /\ openHandles' = 0
            /\ (deviceIndex # Undefined /\ (deviceIndex < 0 \/ deviceIndex >= Len(devices))) =>
                  /\ lastError' = "Invalid device index"
                  /\ ~running' /\ cap' = Null /\ openHandles' = 0

StartFailsAsCoded == [][StartFailsByIndex]_vars

(* start(1) was called with no device listed: the device-invalid error *)
InvalidIndexOnEmptyList ==
    /\ devices = <<>>
    /\ ncalls = 1
    /\ lastError = "Invalid device index"
    /\ ~running

----------------------------------------------------------------------------
(* The device start opens when it is given no integer index                *)

Usable(d) == d.ipv4 /\ ~d.loopback

(* C21 as stated: a start without an integer index that opens a device     *)
(* opens the first device of the list that has an IPv4 address and is not  *)
(* marked loopback; a device without an IPv4 address or marked loopback is *)
(* never opened by default.                                                *)
DefaultDeviceIsUsable ==
    ((\E opens \in BOOLEAN : Start(Undefined, opens)) /\ cap' # Null) =>
        /\ Usable(devices[cap' + 1])
        /\ \A j \in 1..cap' : ~Usable(devices[j])

C21_DefaultDeviceIsUsable == [][DefaultDeviceIsUsable]_vars

(* what start does: the first usable device when there is one, the first   *)
(* device of the list, whatever it is, when there is none                  *)
DefaultDeviceOrFirst ==
    ((\E opens \in BOOLEAN : Start(Undefined, opens)) /\ cap' # Null) =>
        IF \E j \in 1..Len(devices) : Usable(devices[j])
        THEN /\ Usable(devices[cap' + 1])
             /\ \A j \in 1..cap' : ~Usable(devices[j])
        ELSE cap' = 0

DefaultDeviceAsCoded == [][DefaultDeviceOrFirst]_vars

(* start() with a loopback device and a device without address: the        *)
(* loopback device is open                                                 *)
LoopbackOpenedByDefault ==
    /\ devices = << Device(TRUE, TRUE), Device(FALSE, FALSE) >>
    /\ ncalls = 1
    /\ running /\ cap = 0

(* start() with a usable device in third place: it is the one opened *)
ThirdDeviceOpenedByDefault ==
    /\ Len(devices) = 3
    /\ ncalls = 1
    /\ running /\ cap = 2

----------------------------------------------------------------------------
(* The local player, over the single-frame runs                            *)

(* the frame is a Notify of the tracked service whose payload, once        *)
(* decompressed when the bit is set, is NotifyBody                         *)
HasNotifyBody ==
    /\ OneFrame /\ IsNotifyFrame(TheFrame) /\ HasTrackedId(TheFrame)
    /\ TypeAndFlags(TheFrame) >= 32768 => ZstdValid(Subarray(TheFrame, 22, Len(TheFrame)))

NotifyBody ==
    IF TypeAndFlags(TheFrame) >= 32768
    THEN ZstdDecompress(Subarray(TheFrame, 22, Len(TheFrame)))
    ELSE Subarray(TheFrame, 22, Len(TheFrame))

(* the uuids a message of the tracked service shows for the local player,  *)
(* in the order of the message: those of the entities of SyncNearEntities  *)
(* and that of the DeltaInfo of SyncToMeDeltaInfo                          *)
ObservedUuids(methodId, body) ==
    IF Len(body) # 2 THEN <<>>
    ELSE IF methodId = 6 /\ SchemaIndex(body) \in 1..Len(SyncNearEntitiesRegistry)
    THEN LET es == SyncNearEntitiesRegistry[SchemaIndex(body)].Entities
         IN [i \in 1..Len(es) |-> es[i].Uuid]
    ELSE IF methodId = 46 /\ SchemaIndex(body) \in 1..Len(SyncToMeDeltaInfoRegistry)
    THEN << SyncToMeDeltaInfoRegistry[SchemaIndex(body)].Uuid >>
    ELSE <<>>

(* the local player and the number of notices after the uuids from i on    *)
(* have been seen, one by one, from local player u and n notices           *)
RECURSIVE Followed(_, _, _, _)
Followed(u, n, uuids, i) ==
    IF i > Len(uuids) THEN [uuid |-> u, notices |-> n]
    ELSE IF uuids[i] = Null \/ uuids[i] = u THEN Followed(u, n, uuids, i + 1)
    ELSE Followed(uuids[i], n + 1, uuids, i + 1)

(* the notices logged before the frame of a single-frame run *)
NoticesBefore == IF npackets = 1 THEN 0 ELSE 1

(* C22: the local player is zero until a uuid is seen in an entity of      *)
(* SyncNearEntities or in the delta of SyncToMeDeltaInfo; each non-null    *)
(* uuid of such a message that differs from the local player of the moment *)
(* becomes the local player and logs exactly one notice, a uuid equal to   *)
(* it changes nothing and logs nothing; a frame that is no container and   *)
(* no such message leaves the local player as it was and logs no notice.   *)
C22_LocalPlayerFollowsObservedUuids ==
    /\ pc = "ready" => currentUserUuid \in {LongZero, UPlayerA}
    /\ HasNotifyBody =>
          LET after == Followed(prevUuid, NoticesBefore,
                                ObservedUuids(ReadUInt32BE(TheFrame, 18), NotifyBody), 1)
          IN /\ currentUserUuid = after.uuid
             /\ notices = after.notices
    /\ (OneFrame /\ ~IsContainerFrame(TheFrame)
        /\ ~(IsNotifyFrame(TheFrame) /\ HasTrackedId(TheFrame)
             /\ ReadUInt32BE(TheFrame, 18) \in {6, 46}))
          => /\ currentUserUuid = prevUuid
             /\ notices = NoticesBefore

(* C22 witness: with UPlayerA the local player, a SyncNearEntities listing *)
(* UPlayerB and then UPlayerA: two changes, two notices                    *)
C22_Witness ==
    /\ pc = "done"
    /\ HasNotifyBody
    /\ ReadUInt32BE(TheFrame, 18) = 6
    /\ ObservedUuids(6, NotifyBody) = << UPlayerB, UPlayerA >>
    /\ prevUuid = UPlayerA
    /\ currentUserUuid = UPlayerA
    /\ notices = 3

(* the first uuid seen becomes the local player *)
FirstUuidTracked ==
    /\ pc = "done"
    /\ HasNotifyBody
    /\ ReadUInt32BE(TheFrame, 18) = 46
    /\ prevUuid = LongZero
    /\ currentUserUuid = UPlayerB
    /\ notices = 1

(* a uuid equal to the local player logs nothing *)
SameUuidSilent ==
    /\ pc = "done"
    /\ HasNotifyBody
    /\ ReadUInt32BE(TheFrame, 18) = 46
    /\ ObservedUuids(46, NotifyBody) = << UPlayerA >>
    /\ prevUuid = UPlayerA
    /\ currentUserUuid = UPlayerA
    /\ notices = 1

----------------------------------------------------------------------------
(* What a flow retains after a payload                                     *)

(* a packet callback on flow k: acc is the flow's buffer followed by the   *)
(* payload, and the loop has left offset Len(acc) - Len(buffers'[k]),      *)
(* which is offset base + that in the flow's stream.  The new buffer is    *)
(* the rest of acc from the final offset; the final offset is the end of   *)
(* the last frame passed or of the last byte skipped; and the loop cannot  *)
(* go on from it.                                                          *)
RetainsSuffix(k) ==
    LET payload == Subarray(stream'[k], Len(stream[k]), Len(stream'[k]))
        acc == Retained(k) \o payload
        kept == buffers'[k]
        offset == Len(acc) - Len(kept)
        base == Len(stream[k]) - Len(Retained(k))
        ends == { emitted'[k][i].at + Len(emitted'[k][i].bytes) :
                    i \in (Len(emitted[k]) + 1)..Len(emitted'[k]) }
                \cup { o + 1 : o \in skips'[k] \ skips[k] }
    IN /\ k \in DOMAIN buffers'
       /\ offset >= 0
       /\ kept = Subarray(acc, offset, Len(acc))
       /\ \A e \in ends : e <= base + offset
       /\ offset > 0 => base + offset \in ends
       /\ offset = 0 => ends = {}
       /\ \/ Len(kept) < 4
          \/ /\ ReadUInt32BE(kept, 0) >= 6
             /\ ReadUInt32BE(kept, 0) <= 2 * 1024 * 1024
             /\ ReadUInt32BE(kept, 0) > Len(kept)
       /\ Len(kept) < 2 * 1024 * 1024
       /\ \A j \in DOMAIN buffers' \ {k} : j \in DOMAIN buffers /\ buffers'[j] = buffers[j]

AfterPayload ==
    npackets' = npackets + 1 =>
        \E k \in Flows : stream'[k] # stream[k] /\ RetainsSuffix(k)

(* C23: after each payload the flow's buffer is exactly the suffix of the  *)
(* accumulated bytes that starts at the final offset, and that suffix is   *)
(* shorter than 4 bytes or begins with a size s, 6 <= s <= 2 MiB, greater  *)
(* than its own length; a retained buffer is shorter than 2 MiB.           *)
C23_RetainsUnconsumedSuffix == [][AfterPayload]_vars

(* C23 witness: a frame followed by the first 9 bytes of the next in one   *)
(* payload: the frame is passed and the 9 bytes are retained               *)
C23_Witness ==
    \E k \in DOMAIN buffers :
        /\ Len(stream[k]) > 9
        /\ Len(emitted[k]) = 1
        /\ lastFrames # <<>>
        /\ buffers[k] = SubSeq(SampleFrame, 1, 9)
        /\ buffers[k] = Subarray(stream[k], Len(emitted[k][1].bytes), Len(stream[k]))

----------------------------------------------------------------------------
(* The size test of the reassembly loop, offset by offset                  *)

(* the offsets of flow k's stream at which the loop has stood: where it    *)
(* skipped a byte, where it took a frame, and where it stands now          *)
FrameStarts(k) == { emitted[k][i].at : i \in DOMAIN emitted[k] }

Visited(k) == skips[k] \cup FrameStarts(k) \cup {Consumed(k)}

SizeAt(k, o) == ReadUInt32BE(stream[k], o)

(* C24: where the loop has at least 4 bytes, a size below 6 or above 2 MiB *)
(* (2 * 1024 * 1024) makes it advance by exactly one byte and pass         *)
(* nothing, while every size from 6 to 2 MiB, both included, is taken as a *)
(* frame length: the frame is passed when that many bytes are there, and   *)
(* the loop waits when they are not; with fewer than 4 bytes the loop      *)
(* stops and keeps them.                                                   *)
C24_SizeLimitsAtEachOffset ==
    \A k \in Flows :
        /\ \A o \in skips[k] :
              /\ o + 4 <= Len(stream[k])
              /\ SizeAt(k, o) < 6 \/ SizeAt(k, o) > 2 * 1024 * 1024
              /\ o + 1 \in Visited(k)
              /\ o \notin FrameStarts(k)
        /\ \A i \in DOMAIN emitted[k] :
              /\ SizeAt(k, emitted[k][i].at) >= 6
              /\ SizeAt(k, emitted[k][i].at) <= 2 * 1024 * 1024
              /\ Len(emitted[k][i].bytes) = SizeAt(k, emitted[k][i].at)
              /\ emitted[k][i].at + Len(emitted[k][i].bytes) \in Visited(k)
        /\ Retained(k) = Subarray(stream[k], Consumed(k), Len(stream[k]))
        /\ Len(Retained(k)) >= 4 =>
              /\ SizeAt(k, Consumed(k)) >= 6
              /\ SizeAt(k, Consumed(k)) <= 2 * 1024 * 1024
              /\ SizeAt(k, Consumed(k)) > Len(Retained(k))

(* C24 witness: a frame of size 6 passed on one flow, a size of 2 MiB      *)
(* waited for on the other                                                 *)
C24_Witness ==
    \E k \in Flows, j \in Flows :
        /\ emitted[k] = << [at |-> 0, bytes |-> ReturnFrame] >>
        /\ Retained(k) = <<>>
        /\ stream[j] = << 0, 32, 0, 0 >>
        /\ skips[j] = {}
        /\ Retained(j) = << 0, 32, 0, 0 >>

(* sizes 5 and 2 MiB + 1: one byte skipped each, three bytes kept *)
SizesBeyondLimitsSkipped ==
    \E k \in Flows, j \in Flows :
        /\ stream[k] = << 0, 0, 0, 5 >>
        /\ skips[k] = {0}
        /\ Retained(k) = << 0, 0, 5 >>
        /\ stream[j] = << 0, 32, 0, 1 >>
        /\ skips[j] = {0}
        /\ Retained(j) = << 32, 0, 1 >>
        /\ emitted[k] = <<>> /\ emitted[j] = <<>>

----------------------------------------------------------------------------
(* What a container re-enters the parser on                                *)

(* the frame is a container with a nested envelope of 6 bytes; Behind is   *)
(* what follows the envelope                                               *)
HasEnvelope == OneFrame /\ IsContainerFrame(TheFrame) /\ Len(TheFrame) >= 12

Behind == Subarray(TheFrame, 12, Len(TheFrame))

NestedBitSet == ReadUInt16BE(TheFrame, 10) >= 32768

NestedSizeZeroProcessed ==
    /\ pc = "done"
    /\ HasEnvelope /\ ~NestedBitSet
    /\ ReadUInt32BE(TheFrame, 6) = 0
    /\ ReadUInt16BE(TheFrame, 10) = 3
    /\ Behind = NearDelta(CoreDeltas[2])
    /\ sink # <<>>

----------------------------------------------------------------------------
(* The attacker a damage event is attributed to                            *)

(* the frame carries one event on a monster that passes the skill and      *)
(* damage filters                                                          *)
HasCountedEventOnMonster ==
    /\ HasInputEvent
    /\ ClassOf(InputDelta.Uuid) = "monster"
    /\ InputEvent.OwnerId # Null /\ InputEvent.OwnerId # 0
    /\ (IF InputEvent.Value # Null THEN InputEvent.Value ELSE OrZero(InputEvent.LuckyValue)) # 0

(* the event is reported as damage dealt by player uuid a, or not at all   *)
(* when a is no player                                                     *)
AttributedTo(a) ==
    IF ClassOf(a) = "player"
    THEN /\ Cardinality(DamageCalls) = 1
         /\ \A i \in DamageCalls : sink[i].op = "processPlayerDamage" /\ sink[i].uid = a \div 65536
    ELSE DamageCalls = {}

(* C26 as stated: the attacker that is classified and reported is          *)
(* TopSummonerId when TopSummonerId is non-zero and AttackerUuid           *)
(* otherwise; an event whose TopSummonerId is present with value zero is   *)
(* attributed to AttackerUuid.                                             *)
C26_AttackerIsNonZeroSummonerElseAttacker ==
    HasCountedEventOnMonster => AttributedTo(LogicalAttacker(InputEvent))

(* what the code does: TopSummonerId whenever it is present, zero included *)
AttackerIsPresentSummonerElseAttacker ==
    HasCountedEventOnMonster =>
        AttributedTo(IF InputEvent.TopSummonerId # Null THEN InputEvent.TopSummonerId
                     ELSE InputEvent.AttackerUuid)

(* a player's hit on a monster with TopSummonerId present and zero: no call *)
ZeroSummonerHidesAttacker ==
    /\ pc = "done"
    /\ HasCountedEventOnMonster
    /\ InputEvent.TopSummonerId = 0
    /\ InputEvent.AttackerUuid = UPlayerB
    /\ sink = <<>>

(* a monster's event summoned by a player is reported for the summoner *)
SummonerReported ==
    /\ pc = "done"
    /\ HasCountedEventOnMonster
    /\ InputEvent.TopSummonerId = UPlayerA
    /\ InputEvent.AttackerUuid = UMonsterB
    /\ Len(sink) = 1
    /\ sink[1].op = "processPlayerDamage"
    /\ sink[1].uid = 1

----------------------------------------------------------------------------
(* The order of the sink calls of a SyncNearDeltaInfo                      *)

(* the frame is an uncompressed tracked SyncNearDeltaInfo: InputDeltas *)
HasInputDeltas ==
    /\ OneFrame /\ Len(TheFrame) = 24
    /\ TypeAndFlags(TheFrame) = 2
    /\ HasTrackedId(TheFrame)
    /\ ReadUInt32BE(TheFrame, 18) = 45
    /\ ReadUInt16BE(TheFrame, 22) \in 1..Len(SyncNearDeltaInfoRegistry)

InputDeltas == SyncNearDeltaInfoRegistry[ReadUInt16BE(TheFrame, 22)].DeltaInfos

(* the calls of the events of delta d from the i-th on, each taken as if   *)
(* it were the only event of a delta without attributes                    *)
RECURSIVE EventByEvent(_, _)
EventByEvent(d, i) ==
    IF i > Len(d.Events) THEN <<>>
    ELSE ProcessAoiSyncDelta(Delta(d.Uuid, <<>>, << d.Events[i] >>)) \o EventByEvent(d, i + 1)

(* the calls of the attributes of d, then those of its events in order *)
AttrsThenEvents(d) == ProcessAoiSyncDelta(Delta(d.Uuid, d.Attrs, <<>>)) \o EventByEvent(d, 1)

RECURSIVE DeltaByDelta(_, _)
DeltaByDelta(deltas, i) ==
    IF i > Len(deltas) THEN <<>>
    ELSE AttrsThenEvents(deltas[i]) \o DeltaByDelta(deltas, i + 1)

(* C27: the sink calls of a SyncNearDeltaInfo are those of its deltas in   *)
(* list order; within a delta all the calls of its attributes come first   *)
(* and the damage calls follow in the order of DamageEvents.Events, an     *)
(* event that is dropped leaving the others in their order.                *)
C27_CallsInListAndEventOrder ==
    HasInputDeltas =>
        /\ sink = DeltaByDelta(InputDeltas, 1)
        /\ Len(InputDeltas) = 1 =>
              \A i \in DOMAIN sink, j \in DOMAIN sink :
                  (i < j /\ sink[i].op \in DamageOps) => sink[j].op \in DamageOps

(* C27 witness: a monster delta with MaxHp and three events, the second    *)
(* dropped: setEnemyMaxHp, then the damage of the first, then of the third *)
C27_Witness ==
    /\ pc = "done"
    /\ HasInputDeltas
    /\ InputDeltas = << OrderDeltas[1] >>
    /\ Len(sink) = 3
    /\ sink[1].op = "setEnemyMaxHp"
    /\ sink[2].op = "processPlayerDamage" /\ sink[2].damage.value = 11
    /\ sink[3].op = "processPlayerDamage" /\ sink[3].damage.value = 22

(* three deltas in one message: the calls of the first, then of the third  *)
(* (the second makes none)                                                 *)
DeltasInListOrder ==
    /\ pc = "done"
    /\ HasInputDeltas
    /\ Len(InputDeltas) = 3
    /\ Len(sink) = 6
    /\ sink[1].op = "setName"
    /\ sink[2].op = "processDamageToPlayer" /\ sink[2].damage.value = 33
    /\ sink[3].op = "processDamageToPlayer" /\ sink[3].damage.value = 44
    /\ sink[4].op = "setEnemyMaxHp"
    /\ sink[6].damage.value = 22

----------------------------------------------------------------------------
(* The local player after a SyncNearEntities of several entities           *)

(* the frame is a tracked SyncNearEntities whose first two entities have   *)
(* distinct uuids: ListedUuids are the uuids of its entities               *)
HasTwoEntities ==
    /\ HasNotifyBody
    /\ ReadUInt32BE(TheFrame, 18) = 6
    /\ Len(ObservedUuids(6, NotifyBody)) >= 2
    /\ ObservedUuids(6, NotifyBody)[1] # Null
    /\ ObservedUuids(6, NotifyBody)[2] # Null
    /\ ObservedUuids(6, NotifyBody)[1] # ObservedUuids(6, NotifyBody)[2]

ListedUuids == ObservedUuids(6, NotifyBody)

(* C28 as stated: after a SyncNearEntities listing two or more entities    *)
(* with distinct uuids, the local player is the first entity of the        *)
(* message.                                                                *)
C28_FirstEntityIsLocalPlayer ==
    HasTwoEntities => currentUserUuid = ListedUuids[1]

(* what the code does: the last entity of the message is the local player *)
LastEntityIsLocalPlayer ==
    HasTwoEntities => currentUserUuid = ListedUuids[Len(ListedUuids)]

(* a player and then a monster listed: the monster is the local player *)
MonsterBecomesLocalPlayer ==
    /\ pc = "done"
    /\ HasTwoEntities
    /\ ListedUuids = << UPlayerA, UMonsterA >>
    /\ prevUuid = LongZero
    /\ currentUserUuid = UMonsterA
    /\ notices = 2

----------------------------------------------------------------------------
(* The local position                                                      *)

KnownMethods == {6, 21, 22, 43, 45, 46}

PositionCalls == { i \in DOMAIN sink : sink[i].op = "setLocalPosition" }

(* the frame is a tracked Notify of no known method whose payload decodes  *)
(* to the views InputMove of the two movement schemas                      *)
HasInputMove ==
    /\ HasNotifyBody
    /\ ReadUInt32BE(TheFrame, 18) \notin KnownMethods
    /\ Len(NotifyBody) = 2
    /\ SchemaIndex(NotifyBody) \in 1..Len(MoveRegistry)

InputMove == MoveRegistry[SchemaIndex(NotifyBody)]

PositionOf(p) ==
    [op |-> "setLocalPosition", uid |-> prevUuid \div 65536, x |-> p.X, y |-> p.Y,
     z |-> IF p.Z = Null THEN 0 ELSE p.Z, dir |-> p.Dir,
     moveVersion |-> IF p.MoveVersion = Null THEN 0 ELSE p.MoveVersion]

(* C29: setLocalPosition is called only for a Notify of the tracked        *)
(* service whose method id is none of the six known ones (alone or inside  *)
(* a container), at most once for such a frame: with the position of       *)
(* NewMove when that decodes and has one, with that of UserControlInfo     *)
(* only when NewMove gave none; its uid is the local player's uuid shifted *)
(* right by 16 at the time of the call; an attempt whose decode fails      *)
(* makes no call and no error is logged.                                   *)
C29_LocalPositionOnlyFromUnknownMethod ==
    /\ (OneFrame /\ PositionCalls # {}) =>
          /\ \/ IsContainerFrame(TheFrame)
             \/ /\ IsNotifyFrame(TheFrame) /\ HasTrackedId(TheFrame)
                /\ ReadUInt32BE(TheFrame, 18) \notin KnownMethods
                /\ currentUserUuid = prevUuid
          /\ Cardinality(PositionCalls) = 1
          /\ \A i \in PositionCalls : sink[i].uid = currentUserUuid \div 65536
    /\ HasInputMove =>
          /\ errors = 0
          /\ sink = IF InputMove.NewMove.ok /\ InputMove.NewMove.hasPos
                    THEN << PositionOf(InputMove.NewMove) >>
                    ELSE IF InputMove.UserControlInfo.ok /\ InputMove.UserControlInfo.hasPos
                    THEN << PositionOf(InputMove.UserControlInfo) >>
                    ELSE <<>>
    /\ (HasNotifyBody /\ ReadUInt32BE(TheFrame, 18) \notin KnownMethods /\ ~HasInputMove) =>
          /\ errors = 0
          /\ sink = <<>>

(* C29 witness: both schemas decode with a position, UPlayerA is the local *)
(* player: one call, with the position of NewMove and uid 1                *)
C29_Witness ==
    /\ pc = "done"
    /\ HasInputMove
    /\ InputMove.NewMove.ok /\ InputMove.NewMove.hasPos
    /\ InputMove.UserControlInfo.ok /\ InputMove.UserControlInfo.hasPos
    /\ prevUuid = UPlayerA
    /\ Len(sink) = 1
    /\ sink[1].op = "setLocalPosition"
    /\ sink[1].uid = 1
    /\ sink[1].x = 10
    /\ sink[1].moveVersion = 1

(* NewMove fails to decode, UserControlInfo has a position: its position *)
SecondAttemptAfterDecodeError ==
    /\ pc = "done"
    /\ HasInputMove
    /\ ~InputMove.NewMove.ok
    /\ Len(sink) = 1
    /\ sink[1].x = 20
    /\ sink[1].moveVersion = 0
    /\ errors = 0

(* in a container, after a SyncToMeDeltaInfo of UPlayerB: uid 2 *)
PositionOfNewLocalPlayer ==
    /\ pc = "done"
    /\ OneFrame /\ TheFrame = MoveAfterToMeFrame
    /\ prevUuid = UPlayerA
    /\ currentUserUuid = UPlayerB
    /\ Len(sink) = 1
    /\ sink[1].op = "setLocalPosition"
    /\ sink[1].uid = 2

----------------------------------------------------------------------------
(* The registration of a monster                                           *)

(* the name and the maximum hp an attribute list leaves: those of its last *)
(* AttrName and AttrMaxHp that can be decoded, 'Unknown' and 0 without one *)
NameAttrs(attrs) ==
    { i \in DOMAIN attrs : attrs[i].HasData /\ attrs[i].AttrId = 1 /\ ReadString(attrs[i].AttrData).ok }

MaxHpAttrs(attrs) ==
    { i \in DOMAIN attrs : attrs[i].HasData /\ attrs[i].AttrId = 11320 /\ Len(attrs[i].AttrData) >= 4 }

Last(S) == CHOOSE i \in S : \A j \in S : j <= i

NameOfList(attrs) ==
    IF NameAttrs(attrs) = {} THEN StrUnknown
    ELSE LET t == Trim(ReadString(attrs[Last(NameAttrs(attrs))].AttrData).str)
         IN IF t # <<>> /\ monsterNames(t) # <<>> THEN monsterNames(t) ELSE t

MaxHpOfList(attrs) ==
    IF MaxHpAttrs(attrs) = {} THEN 0
    ELSE ReadUInt32BE(attrs[Last(MaxHpAttrs(attrs))].AttrData, 0)

EnemyCalls == { i \in DOMAIN sink : sink[i].op = "addEnemy" }

(* the frame is an uncompressed tracked SyncContainerDirtyData of an       *)
(* entity with a container: InputDirty                                     *)
HasInputDirty ==
    /\ OneFrame /\ Len(TheFrame) = 24
    /\ TypeAndFlags(TheFrame) = 2
    /\ HasTrackedId(TheFrame)
    /\ ReadUInt32BE(TheFrame, 18) = 22
    /\ ReadUInt16BE(TheFrame, 22) \in 1..Len(SyncContainerDirtyDataRegistry)
    /\ SyncContainerDirtyDataRegistry[ReadUInt16BE(TheFrame, 22)].Uuid # Null
    /\ SyncContainerDirtyDataRegistry[ReadUInt16BE(TheFrame, 22)].HasEntity
    /\ SyncContainerDirtyDataRegistry[ReadUInt16BE(TheFrame, 22)].HasContainer

InputDirty == SyncContainerDirtyDataRegistry[ReadUInt16BE(TheFrame, 22)]

(* addEnemy for the attribute list attrs of the entity uuid *)
RegisteredByList(uuid, attrs) ==
    /\ Cardinality(EnemyCalls) <= 1
    /\ \A i \in EnemyCalls :
          /\ i = Len(sink)
          /\ sink[i].uid = uuid \div 65536
          /\ sink[i].name = NameOfList(attrs)
          /\ sink[i].maxHp = MaxHpOfList(attrs)
    /\ EnemyCalls # {} <=>
          /\ uuid % 65536 = 2
          /\ NameOfList(attrs) # StrUnknown
          /\ MaxHpOfList(attrs) > 0

(* C30: for each attribute list of a monster addEnemy is called at most    *)
(* once, after all the setter calls of the list, and exactly when the list *)
(* leaves a name other than 'Unknown' and a maximum hp above 0; it is      *)
(* never called for a player.                                              *)
C30_AddEnemyOnceAfterSetters ==
    /\ (HasInputDelta /\ InputDelta.Uuid # Null /\ InputDelta.Events = <<>>) =>
          RegisteredByList(InputDelta.Uuid, InputDelta.Attrs)
    /\ HasInputDirty => RegisteredByList(InputDirty.Uuid, InputDirty.Attrs)
    /\ (HasInputDelta /\ ClassOf(InputDelta.Uuid) # "monster") => EnemyCalls = {}

(* C30 witness: maximum hp, name and hp of a monster, in this order: the   *)
(* three setters, then addEnemy                                            *)
C30_Witness ==
    /\ pc = "done"
    /\ HasInputDelta
    /\ InputDelta.Uuid = UMonsterA
    /\ InputDelta.Attrs = EnemyLists[6]
    /\ Len(sink) = 4
    /\ sink[1].op = "setEnemyMaxHp"
    /\ sink[2].op = "setEnemyName"
    /\ sink[3].op = "setEnemyHp"
    /\ sink[4].op = "addEnemy" /\ sink[4].name = StrAlice /\ sink[4].maxHp = 500 /\ sink[4].hp = 77

(* a monster named 'Unknown' with a maximum hp: setters only *)
UnknownNotRegistered ==
    /\ pc = "done"
    /\ HasInputDelta
    /\ InputDelta = Delta(UMonsterA, EnemyLists[5], <<>>)
    /\ Len(sink) = 2
    /\ EnemyCalls = {}

(* the same list for a player: the name setter, no addEnemy *)
PlayerNotRegistered ==
    /\ pc = "done"
    /\ HasInputDelta
    /\ InputDelta = Delta(UPlayerA, EnemyLists[6], <<>>)
    /\ sink # <<>>
    /\ EnemyCalls = {}

(* an empty name is a name: registered *)
EmptyNameRegistered ==
    /\ pc = "done"
    /\ HasInputDelta
    /\ InputDelta = Delta(UMonsterA, EnemyLists[4], <<>>)
    /\ EnemyCalls # {}
    /\ sink[Len(sink)].name = <<>>


----------------------------------------------------------------------------
(* The idle runs: a started sniffer receives payloads on its flows while   *)
(* time passes.  The only timer of the program is the server's            *)
(* setInterval, which calls userDataManager.checkTimeoutClear and touches  *)
(* nothing of the sniffer; the packet callback sets no timer.              *)

IdlePieces == { SampleFrame, SubSeq(SampleFrame, 1, 9), ReturnFrame }

InitIdle ==
    /\ running = TRUE
    /\ cap = 0
    /\ buffers = NoBuffers
    /\ hasProcessor = TRUE
    /\ devices = << Device(TRUE, FALSE) >>
    /\ openHandles = 1
    /\ currentUserUuid = LongZero
    /\ notices = 0
    /\ npackets = 0
    /\ ncalls = 1
    /\ lastFrames = <<>>
    /\ errors = 0
    /\ sink = <<>>
    /\ stream = [k \in Flows |-> <<>>]
    /\ emitted = [k \in Flows |-> <<>>]
    /\ skips = [k \in Flows |-> {}]
    /\ prevUuid = LongZero
    /\ lastError = "none"
    /\ depth = 0
    /\ quiet = [k \in Flows |-> 0]
    /\ selectedDevice = Undefined
    /\ live = FALSE
    /\ status = Null
    /\ pending = <<>>
    /\ loop = NoLoop
    /\ pc = "clock"

IdlePacket ==
    /\ pc = "clock"
    /\ npackets < MaxPackets
    /\ \E key \in Flows, payload \in IdlePieces : OnPacket(key, payload)
    /\ UNCHANGED pc

(* one time unit passes while the capture runs: the timer fires, and every *)
(* flow that has an entry and stayed silent is one unit older              *)
Tick ==
    /\ pc = "clock"
    /\ running
    /\ \E k \in DOMAIN buffers : quiet[k] < IdleTimeout
    /\ quiet' = [k \in Flows |->
                   IF k \in DOMAIN buffers /\ quiet[k] < IdleTimeout THEN quiet[k] + 1
                   ELSE quiet[k]]
    /\ UNCHANGED << running, cap, buffers, hasProcessor, devices, openHandles,
                    stream, emitted, skips, ncalls, lastError, processorVars,
                    serverVars, pending, loop, pc >>

NextIdle == IdlePacket \/ Tick

(* time does not stop: a tick that can happen does happen *)
SpecIdle == InitIdle /\ [][NextIdle]_vars /\ WF_vars(Tick)

(* C31: a flow entry is created by the first payload of its key, and a     *)
(* flow that has been silent for the idle timeout eventually has its       *)
(* entry removed, while the capture keeps running.                         *)
C31_IdleFlowReclaimed ==
    \A k \in Flows :
        (running /\ k \in DOMAIN buffers /\ quiet[k] >= IdleTimeout)
            ~> (running /\ k \notin DOMAIN buffers)

(* a flow that has been silent for the idle timeout, its entry still held *)
IdleFlowStillBuffered ==
    /\ pc = "clock"
    /\ running
    /\ "a>b" \in DOMAIN buffers
    /\ quiet["a>b"] = IdleTimeout
    /\ buffers["a>b"] = SubSeq(SampleFrame, 1, 9)
    /\ "b>a" \in DOMAIN buffers
    /\ quiet["b>a"] = 0

(* what the code does: the entry of a key exists from its first payload,   *)
(* and while the capture runs no step removes an entry                     *)
FlowEntriesAsCoded ==
    [][/\ \A k \in Flows : k \in DOMAIN buffers' <=> stream'[k] # <<>>
       /\ running' => DOMAIN buffers \subseteq DOMAIN buffers']_vars


----------------------------------------------------------------------------
(* The server: it constructs one Sniffer, starts it once at startup, and   *)
(* afterwards reaches it through switchAdapter, which POST /api/adapter    *)
(* calls once it has resolved the request to a listed device.              *)

(* the name of the i-th device Cap.deviceList() lists *)
DeviceNames == << "eth0", "lo", "wlan0" >>

(* list.findIndex(x => x.name === name) *)
FindIndexByName(list, name) ==
    IF \E i \in 1..Len(list) : DeviceNames[i] = name
    THEN (CHOOSE i \in 1..Len(list) : DeviceNames[i] = name) - 1
    ELSE -1

(* a variant that reports success whenever the sniffer has a processor *)
switchAdapterByProcessor(s, idx, opens) ==
    [sniffer |-> switchDevice(s, idx, opens),
     live |-> switchDevice(s, idx, opens).hasProcessor]

(* switchAdapter(idx): true when switchDevice returned, false when it threw *)
switchAdapter(s, idx, opens) ==
    [sniffer |-> switchDevice(s, idx, opens),
     live |-> switchDevice(s, idx, opens).lastError = "none"]

(* a new Sniffer, globalSettings after loadSettings() (selectedDevice as   *)
(* declared, or the index settings.json holds), nothing started yet       *)
InitServer ==
    /\ running = FALSE
    /\ cap = Null
    /\ buffers = NoBuffers
    /\ hasProcessor = FALSE
    /\ devices \in DeviceLists
    /\ openHandles = 0
    /\ currentUserUuid = LongZero
    /\ notices = 0
    /\ errors = 0
    /\ sink = <<>>
    /\ stream = [k \in Flows |-> <<>>]
    /\ emitted = [k \in Flows |-> <<>>]
    /\ skips = [k \in Flows |-> {}]
    /\ lastFrames = <<>>
    /\ prevUuid = LongZero
    /\ npackets = 0
    /\ ncalls = 0
    /\ lastError = "none"
    /\ depth = 0
    /\ quiet = [k \in Flows |-> 0]
    /\ selectedDevice \in {Undefined, 1}
    /\ live = FALSE
    /\ status = Null
    /\ pending = <<>>
    /\ loop = NoLoop
    /\ pc = "boot"

(* startup: await sniffer.start(deviceIdx, PacketProcessor) in try/catch,  *)
(* deviceIdx being selectedDevice when set, else the command-line index    *)
Startup(deviceIdxFromArgs, opens) ==
    /\ pc = "boot"
    /\ Becomes(start(Sniffer,
                     IF selectedDevice # Undefined THEN selectedDevice ELSE deviceIdxFromArgs,
                     opens))
    /\ ncalls' = ncalls + 1
    /\ pc' = "serving"
    /\ UNCHANGED << devices, processorVars, serverVars, pending, loop >>

(* switchAdapter(idx) called with any index *)
SwitchAdapter(idx, opens) ==
    /\ pc = "serving"
    /\ ncalls <= MaxCalls
    /\ Becomes(switchAdapter(Sniffer, idx, opens).sniffer)
    /\ live' = switchAdapter(Sniffer, idx, opens).live
    /\ ncalls' = ncalls + 1
    /\ UNCHANGED << devices, processorVars, selectedDevice, status, pending, loop, pc >>

(* sniffer.stop() *)
ServerStop ==
    /\ pc = "serving"
    /\ ncalls <= MaxCalls
    /\ Stop

(* a Notify of an unknown method that decodes as a NewMove with a position *)
MoveFrame ==
    NotifyFrame(ServiceUuid, UnknownMethod,
                Encode(MoveRegistry, [NewMove |-> MoveView(TRUE, TRUE, 10, 1),
                                      UserControlInfo |-> MoveView(TRUE, TRUE, 20, Null)]),
                FALSE)

ServerPieces == { ToMeFrame, MoveFrame, SubSeq(SampleFrame, 1, 9) }

ServerPacket ==
    /\ pc = "serving"
    /\ npackets < MaxPackets
    /\ \E payload \in ServerPieces : OnPacket("a>b", payload)
    /\ UNCHANGED pc

(* the switch runs: after startup, any calls of switchAdapter and stop,    *)
(* and payloads while a handle is open                                     *)
NextSwitch ==
    \/ \E deviceIdxFromArgs \in DeviceIndexes, opens \in BOOLEAN : Startup(deviceIdxFromArgs, opens)
    \/ \E idx \in DeviceIndexes, opens \in BOOLEAN : SwitchAdapter(idx, opens)
    \/ ServerStop
    \/ ServerPacket

SpecSwitch == InitServer /\ [][NextSwitch]_vars


(* the uuids set by the frames passed to processPacket since the sniffer   *)
(* last stopped                                                            *)
ObservedSinceStart ==
    UNION { { ProcessPacket(St(<<>>, LongZero), emitted[k][i].bytes).uuid :
                i \in DOMAIN emitted[k] } : k \in Flows } \ { LongZero }

(* C32: the local-player uuid is re-initialized on every device switch:    *)
(* a setLocalPosition call made by a packet callback is keyed by 0 (no     *)
(* uuid) or by a uuid observed since the sniffer was last (re)started,     *)
(* never by one observed before the switch.                                *)
C32_UuidResetOnSwitch ==
    [][npackets' # npackets =>
          \A i \in DOMAIN sink' :
              sink'[i].op = "setLocalPosition" =>
                  \/ sink'[i].uid = 0
                  \/ \E u \in ObservedSinceStart' : sink'[i].uid = u \div 65536]_vars

(* after a switch that succeeded, the first payload is a move: the call is *)
(* keyed by the uuid of the player seen before the switch                  *)
PositionOfEarlierPlayer ==
    /\ pc = "serving"
    /\ ncalls = 2
    /\ live = TRUE
    /\ running
    /\ stream["a>b"] = MoveFrame
    /\ Len(sink) = 1
    /\ sink[1].op = "setLocalPosition"
    /\ sink[1].uid = UPlayerA \div 65536
    /\ currentUserUuid = UPlayerA

(* what the code does: currentUserUuid is a variable of the module         *)
(* packet.js, which no call of start, stop or switchDevice assigns         *)
UuidSurvivesSwitch == [][ncalls' # ncalls => currentUserUuid' = currentUserUuid]_vars


(* the step has an effect only a packet callback has: a payload counted,   *)
(* bytes kept for a flow, frames passed to the processor or sink calls     *)
CallbackEffect ==
    \/ npackets' # npackets
    \/ \E k \in DOMAIN buffers' : k \notin DOMAIN buffers \/ buffers'[k] # buffers[k]
    \/ lastFrames' # lastFrames
    \/ sink' # sink
    \/ currentUserUuid' # currentUserUuid

(* C33: once stop() or the stop phase of switchDevice has returned, no     *)
(* callback of the closed handle runs: a step that keeps bytes for a flow, *)
(* passes a frame to the processor or calls the sink is taken while the    *)
(* sniffer runs on its one open handle; it is the callback of one payload, *)
(* run whole, and it leaves the sniffer's handle and flags as they are.    *)
C33_NoCallbackAfterStop ==
    [][CallbackEffect =>
          /\ running /\ cap # Null /\ openHandles = 1
          /\ npackets' = npackets + 1
          /\ running' /\ cap' = cap /\ openHandles' = 1 /\ ncalls' = ncalls
          /\ lastFrames' = [i \in 1..(Len(emitted'["a>b"]) - Len(emitted["a>b"])) |->
                              emitted'["a>b"][Len(emitted["a>b"]) + i].bytes]
          /\ "a>b" \in DOMAIN buffers'
          /\ buffers'["a>b"] = Subarray(stream'["a>b"], Consumed("a>b")', Len(stream'["a>b"]))]_vars

(* C33 witness: a payload was processed, then the capture was stopped (by  *)
(* stop, or by a switchAdapter that failed): nothing is held, and the      *)
(* frame of the last callback is still the one processed before the stop   *)
C33_Witness ==
    /\ pc = "serving"
    /\ ~running
    /\ openHandles = 0
    /\ ncalls = 2
    /\ npackets = MaxPackets - 1
    /\ buffers = NoBuffers
    /\ lastFrames = << ToMeFrame >>
    /\ currentUserUuid = UPlayerA

(* while the sniffer is stopped no payload reaches the callback *)
StoppedIsSilent ==
    (pc = "serving" /\ ~running) => ~ENABLED ServerPacket


----------------------------------------------------------------------------
(* A flow fed alone: the buffer its entry holds and the frames passed on,  *)
(* callback after callback                                                 *)

EmptyRun == [buffer |-> <<>>, frames |-> <<>>]

FedWith(run, acc, r) ==
    [buffer |-> Remainder(acc, r.offset),
     frames |-> run.frames \o [i \in 1..Len(r.frames) |-> r.frames[i].bytes]]

(* one callback: acc = Buffer.concat([acc, payload]), the loop, set(key) *)
Fed(run, payload) == FedWith(run, run.buffer \o payload, Reassemble(run.buffer \o payload))

(* every way of feeding str alone as at most n payloads of FlowPieces *)
RECURSIVE FedAlone(_, _, _)
FedAlone(run, str, n) ==
    IF str = <<>> THEN { run }
    ELSE IF n = 0 THEN {}
    ELSE UNION { FedAlone(Fed(run, p), SubSeq(str, Len(p) + 1, Len(str)), n - 1) :
                   p \in { q \in FlowPieces : HasPrefix(str, q) } }

(* what the flow k holds and has passed on in the run at hand *)
RunOf(k) == [buffer |-> Retained(k), frames |-> [i \in DOMAIN emitted[k] |-> emitted[k][i].bytes]]

(* a step leaves alone every flow that received nothing *)
OtherFlowsUntouched ==
    \A k \in Flows :
        stream'[k] = stream[k] =>
            /\ k \in DOMAIN buffers' <=> k \in DOMAIN buffers
            /\ k \in DOMAIN buffers => buffers'[k] = buffers[k]
            /\ emitted'[k] = emitted[k]
            /\ skips'[k] = skips[k]

(* C34: however the payloads of different directed 4-tuples interleave,    *)
(* the callback of one flow leaves the buffer of every other flow as it    *)
(* is, and each flow holds and has passed on what it would fed alone.      *)
C34_FlowsIndependent ==
    /\ [](\A k \in Flows : FedAlone(EmptyRun, stream[k], MaxPackets) = { RunOf(k) })
    /\ [][OtherFlowsUntouched]_vars

(* C34 witness: a>b holds the head of a frame and b>a received the tail of *)
(* that frame afterwards: no frame was made of the two, a>b still holds    *)
(* its 9 bytes                                                             *)
C34_Witness ==
    /\ pc = "flow"
    /\ npackets = 2
    /\ stream["a>b"] = BrokenFrame \o SubSeq(SampleFrame, 1, 9)
    /\ stream["b>a"] = SubSeq(SampleFrame, 10, Len(SampleFrame))
    /\ Retained("a>b") = SubSeq(SampleFrame, 1, 9)
    /\ emitted["b>a"] = <<>>
    /\ lastFrames = <<>>


----------------------------------------------------------------------------
(* The cut runs: a started sniffer receives one byte stream on one flow,   *)
(* cut into TCP payloads in any way                                        *)

CutStreams ==
    { ReturnFrame \o SampleFrame,
      << 0, 0, 0, 3 >> \o ReturnFrame \o SubSeq(SampleFrame, 1, 9),
      << 255, 0 >> \o SampleFrame \o << 0, 0 >>,
      << 0, 0, 0, 7 >> \o ReturnFrame \o ReturnFrame }

InitCut ==
    /\ running = TRUE
    /\ cap = 0
    /\ buffers = NoBuffers
    /\ hasProcessor = TRUE
    /\ devices = << Device(TRUE, FALSE) >>
    /\ openHandles = 1
    /\ currentUserUuid = LongZero
    /\ notices = 0
    /\ npackets = 0
    /\ ncalls = 1
    /\ lastFrames = <<>>
    /\ errors = 0
    /\ sink = <<>>
    /\ stream = [k \in Flows |-> <<>>]
    /\ emitted = [k \in Flows |-> <<>>]
    /\ skips = [k \in Flows |-> {}]
    /\ prevUuid = LongZero
    /\ lastError = "none"
    /\ depth = 0
    /\ quiet = [k \in Flows |-> 0]
    /\ selectedDevice = Undefined
    /\ live = FALSE
    /\ status = Null
    /\ pending \in CutStreams
    /\ loop = NoLoop
    /\ pc = "cut"

(* the next payload: any number of the bytes still to come *)
CutPacket ==
    /\ pc = "cut"
    /\ \E n \in 1..Len(pending) : OnPacket("a>b", SubSeq(pending, 1, n))
    /\ UNCHANGED pc

NextCut == CutPacket

SpecCut == InitCut /\ [][NextCut]_vars

(* C35: the frames passed on for a flow and the buffer it retains depend   *)
(* on the bytes of its stream only, not on how they were cut into          *)
(* payloads: after any cuts, both are those of the same bytes fed as one   *)
(* payload.                                                                *)
C35_CutsDoNotMatter ==
    stream["a>b"] # <<>> => RunOf("a>b") = Fed(EmptyRun, stream["a>b"])

(* C35 witness: two bytes that are no frame, a frame and two more bytes,   *)
(* fed as four payloads, the last one the last byte: the two bytes were    *)
(* skipped, the frame was passed on once, two bytes are retained           *)
C35_Witness ==
    /\ pc = "cut"
    /\ pending = <<>>
    /\ npackets = 4
    /\ stream["a>b"] = << 255, 0 >> \o SampleFrame \o << 0, 0 >>
    /\ RunOf("a>b") = [buffer |-> << 0, 0 >>, frames |-> << SampleFrame >>]
    /\ skips["a>b"] = {0, 1}
    /\ lastFrames = <<>>


(* C36: after any calls of start, stop and switchDevice, those that throw  *)
(* included, running is true exactly when a handle is held, at most one    *)
(* handle is open (none when stopped), and the flow-buffer map is empty    *)
(* whenever running is false.                                              *)
C36_RunningIffHandle ==
    /\ running <=> cap # Null
    /\ openHandles = IF running THEN 1 ELSE 0
    /\ ~running => buffers = NoBuffers /\ \A k \in Flows : stream[k] = <<>>
    /\ running => hasProcessor /\ cap \in 0..(Len(devices) - 1)

(* C36 witness: a capture with a payload counted, then a second start on   *)
(* another device: one handle, on the new device, and no buffers           *)
C36_Witness ==
    /\ pc = "idle"
    /\ ncalls = 2
    /\ npackets = 1
    /\ running
    /\ cap = 2
    /\ openHandles = 1
    /\ lastError = "none"
    /\ lastFrames = <<>>
    /\ buffers = NoBuffers

(* a call that threw while a capture was running left the sniffer stopped *)
StoppedByFailedCall ==
    /\ pc = "idle"
    /\ ncalls = 2
    /\ npackets = 1
    /\ lastError = "Invalid device index"
    /\ ~running
    /\ cap = Null
    /\ openHandles = 0
    /\ buffers = NoBuffers


(* the last start or switchDevice threw *)
LastCallFailed == lastError # "none"

(* a switchAdapter call that succeeds *)
RecoveringSwitch ==
    \E idx \in DeviceIndexes : SwitchAdapter(idx, TRUE) /\ running' /\ live' /\ lastError' = "none"

(* C37: when switchDevice fails (invalid index, empty device list, or an   *)
(* open that throws) the previous capture is not restored: the sniffer is  *)
(* stopped, with no handle and no flow buffers, switchAdapter has returned *)
(* false, and where a device is listed a later switchDevice that succeeds  *)
(* brings it back to running.                                              *)
C37_FailedSwitchLeavesStopped ==
    /\ live => lastError = "none"
    /\ LastCallFailed =>
          /\ ~running /\ cap = Null /\ openHandles = 0
          /\ buffers = NoBuffers
          /\ ~live
    /\ (pc = "serving" /\ LastCallFailed /\ devices # <<>> /\ ncalls <= MaxCalls) =>
          ENABLED RecoveringSwitch

(* C37 witness: a capture that had processed a payload, then a             *)
(* switchAdapter whose open failed: false, stopped, nothing held           *)
C37_Witness ==
    /\ pc = "serving"
    /\ ncalls = 2
    /\ npackets = 1
    /\ lastFrames = << ToMeFrame >>
    /\ lastError = "open failed"
    /\ ~live
    /\ ~running
    /\ cap = Null
    /\ buffers = NoBuffers

(* the other two failures: an index that is not listed, and no index on an *)
(* empty device list                                                       *)
SwitchFailedByIndex ==
    pc = "serving" /\ ncalls = 2 /\ npackets = 1 /\ lastError = "Invalid device index" /\ ~live

SwitchFailedByEmptyList ==
    pc = "serving" /\ ncalls = 2 /\ lastError = "No capture devices found" /\ ~live /\ devices = <<>>

(* a step from a failed call to a call that succeeded ends running *)
RecoversOnSuccess ==
    [][(LastCallFailed /\ lastError' = "none" /\ ncalls' # ncalls) =>
          running' /\ cap' # Null /\ openHandles' = 1 /\ live']_vars

(* the sniffer running again, after two switchAdapter calls of which the   *)
(* last succeeded                                                          *)
RunningAfterThirdCall ==
    pc = "serving" /\ ncalls = 3 /\ running /\ live /\ npackets = 1 /\ stream["a>b"] = <<>>


----------------------------------------------------------------------------
(* The adapter runs: after startup, POST /api/adapter requests, and        *)
(* payloads while a handle is open                                         *)

(* the index a request selects: its index when that is an integer, else    *)
(* the position of its name in the device list                             *)
RequestedIndex(index, name) ==
    IF index # Undefined THEN index ELSE FindIndexByName(devices, name)

(* a variant that switches without testing the index *)
postAdapterUnchecked(s, sel, lv, index, name, opens) ==
    [sniffer |-> switchAdapter(s, RequestedIndex(index, name), opens).sniffer,
     selectedDevice |-> RequestedIndex(index, name),
     live |-> switchAdapter(s, RequestedIndex(index, name), opens).live,
     status |-> 200]

(* the handler of POST /api/adapter: 400 when the index is not that of a   *)
(* listed device, else switchAdapter, selectedDevice = idx, saveSettings   *)
(* and the answer { code: 0, live, selected }                              *)
postAdapter(s, sel, lv, index, name, opens) ==
    IF ~(RequestedIndex(index, name) >= 0 /\ RequestedIndex(index, name) < Len(devices))
    THEN [sniffer |-> s, selectedDevice |-> sel, live |-> lv, status |-> 400]
    ELSE [sniffer |-> switchAdapter(s, RequestedIndex(index, name), opens).sniffer,
          selectedDevice |-> RequestedIndex(index, name),
          live |-> switchAdapter(s, RequestedIndex(index, name), opens).live,
          status |-> 200]

PostAdapter(index, name, opens) ==
    /\ pc = "serving"
    /\ ncalls <= MaxCalls
    /\ Becomes(postAdapter(Sniffer, selectedDevice, live, index, name, opens).sniffer)
    /\ selectedDevice' = postAdapter(Sniffer, selectedDevice, live, index, name, opens).selectedDevice
    /\ live' = postAdapter(Sniffer, selectedDevice, live, index, name, opens).live
    /\ status' = postAdapter(Sniffer, selectedDevice, live, index, name, opens).status
    /\ ncalls' = IF postAdapter(Sniffer, selectedDevice, live, index, name, opens).status = 200
                 THEN ncalls + 1 ELSE ncalls
    /\ UNCHANGED << devices, processorVars, pending, loop, pc >>

(* what requests carry: no integer index, or an integer; a name *)
PostIndexes == {Undefined, -1, 0, 2, 3}

PostNames == {"wlan0", "tun0"}

NextAdapter ==
    \/ \E deviceIdxFromArgs \in DeviceIndexes, opens \in BOOLEAN : Startup(deviceIdxFromArgs, opens)
    \/ \E index \in PostIndexes, name \in PostNames, opens \in BOOLEAN : PostAdapter(index, name, opens)
    \/ ServerPacket

SpecAdapter == InitServer /\ [][NextAdapter]_vars

(* the request selects a listed device: by its integer index, or, without  *)
(* one, by its name                                                        *)
Resolves(index, name) ==
    IF index # Undefined THEN index \in 0..(Len(devices) - 1)
    ELSE \E i \in 1..Len(devices) : DeviceNames[i] = name

(* C38: a request whose index or name does not resolve to a listed device  *)
(* is answered 400 and changes neither selectedDevice nor the capture; a   *)
(* request that resolves is answered 200 with selectedDevice set to the    *)
(* device it names; and whenever selectedDevice holds an index and the     *)
(* sniffer is running, it is capturing on the device with that index.      *)
C38_SelectedDeviceIsCaptured ==
    /\ (selectedDevice # Undefined /\ running) => cap = selectedDevice
    /\ status \in {Null, 200, 400}
    /\ \A index \in PostIndexes, name \in PostNames, opens \in BOOLEAN :
          IF Resolves(index, name)
          THEN /\ postAdapter(Sniffer, selectedDevice, live, index, name, opens).status = 200
               /\ postAdapter(Sniffer, selectedDevice, live, index, name, opens).selectedDevice
                     \in 0..(Len(devices) - 1)
               /\ index = Undefined =>
                     DeviceNames[postAdapter(Sniffer, selectedDevice, live, index, name, opens).selectedDevice + 1]
                        = name
               /\ index # Undefined =>
                     postAdapter(Sniffer, selectedDevice, live, index, name, opens).selectedDevice = index
          ELSE postAdapter(Sniffer, selectedDevice, live, index, name, opens)
                  = [sniffer |-> Sniffer, selectedDevice |-> selectedDevice, live |-> live,
                     status |-> 400]

(* C38 witness: a request switched the capture to the third device, a      *)
(* payload arrived, and a request that does not resolve was answered 400:  *)
(* the capture still runs on the third device and holds its bytes          *)
C38_Witness ==
    /\ pc = "serving"
    /\ status = 400
    /\ selectedDevice = 2
    /\ running
    /\ cap = 2
    /\ live
    /\ ncalls = 2
    /\ npackets = 1
    /\ Retained("a>b") = SubSeq(SampleFrame, 1, 9)

(* a request that resolved but whose open failed: selectedDevice is set,   *)
(* nothing is captured                                                     *)
SelectedButStopped ==
    /\ pc = "serving"
    /\ status = 200
    /\ selectedDevice = 2
    /\ ~live
    /\ ~running
    /\ lastError = "open failed"


(* Value if present, else LuckyValue, else 0 *)
DamageOf(ev) ==
    IF ev.Value # Null THEN ev.Value ELSE IF ev.LuckyValue # Null THEN ev.LuckyValue ELSE 0

(* the event has a skill id that is not 0, an attacker and a damage *)
PassesFilters(ev) ==
    /\ ev.OwnerId # Null /\ ev.OwnerId # 0
    /\ ev.TopSummonerId # Null \/ ev.AttackerUuid # Null
    /\ DamageOf(ev) # 0

RECURSIVE Passing(_, _)
Passing(events, i) ==
    IF i > Len(events) THEN <<>>
    ELSE (IF PassesFilters(events[i]) THEN << events[i] >> ELSE <<>>) \o Passing(events, i + 1)

(* C39: a damage call is made only for an event whose skill id (OwnerId)   *)
(* is present and not 0, whose attacker uuid (TopSummonerId, else          *)
(* AttackerUuid) is present and whose damage (Value if present, else       *)
(* LuckyValue, else 0) is not 0; an event failing one of these makes no    *)
(* call and the events after it are processed as if it were not there.     *)
C39_DamageOnlyWithSkillAttackerValue ==
    (HasInputDeltas /\ Len(InputDeltas) = 1) =>
        /\ sink = ProcessAoiSyncDelta(Delta(InputDeltas[1].Uuid, InputDeltas[1].Attrs,
                                            Passing(InputDeltas[1].Events, 1)))
        /\ Cardinality(DamageCalls) <= Len(Passing(InputDeltas[1].Events, 1))
        /\ \A i \in DamageCalls :
              \E j \in DOMAIN InputDeltas[1].Events :
                  /\ PassesFilters(InputDeltas[1].Events[j])
                  /\ sink[i].damage.skillId = InputDeltas[1].Events[j].OwnerId
                  /\ sink[i].damage.value = DamageOf(InputDeltas[1].Events[j])
        /\ (\A j \in DOMAIN InputDeltas[1].Events : ~PassesFilters(InputDeltas[1].Events[j]))
              => DamageCalls = {}

(* C39 witness: nine events on a monster, six of them without skill id,    *)
(* attacker or damage: the calls of the second, the sixth and the ninth    *)
C39_Witness ==
    /\ pc = "done"
    /\ HasInputDeltas
    /\ InputDeltas = << FilterDeltas[1] >>
    /\ Len(sink) = 3
    /\ \A i \in 1..3 : sink[i].op = "processPlayerDamage"
    /\ sink[1].damage.value = 11 /\ sink[1].damage.skillId = 7
    /\ sink[2].damage.value = 55 /\ sink[2].damage.skillId = 8
    /\ sink[3].damage.value = 22 /\ sink[3].damage.skillId = 9
    /\ errors = 0

(* every event of the delta fails a filter: no call *)
AllEventsDropped ==
    /\ pc = "done"
    /\ HasInputDeltas
    /\ InputDeltas = << FilterDeltas[3] >>
    /\ sink = <<>>
    /\ errors = 0


----------------------------------------------------------------------------
(* The step runs: one packet callback of a started sniffer, taken one loop *)
(* iteration at a time.  loop holds the locals of the callback (acc,       *)
(* offset, the length of the frame being processed), the frames passed on, *)
(* and the readers of the processPacket calls in progress, the innermost   *)
(* last.                                                                   *)

(* new BinaryReader(packets), before the first iteration of the do-while *)
Reader(buf) == [buf |-> buf, off |-> 0, entered |-> FALSE]

Top(l) == l.stack[Len(l.stack)]

(* this.processPacket(frame) is called / returns *)
Push(l, r) ==
    [l EXCEPT !.stack = Append(@, r),
              !.height = IF Len(l.stack) + 1 > @ THEN Len(l.stack) + 1 ELSE @]

Pop(l) == [l EXCEPT !.stack = SubSeq(@, 1, Len(@) - 1)]

(* a variant that does not move past a rejected length *)
AfterSkipStuck(offset) == offset

(* offset += 1 *)
AfterSkip(offset) == offset + 1

(* the while loop of the callback, from its condition to the call of       *)
(* processPacket                                                           *)
ReassemblyIteration(l) ==
    IF Len(l.acc) - l.offset < 4 THEN [l EXCEPT !.done = TRUE]
    ELSE IF BadLength(ReadUInt32BE(l.acc, l.offset)) THEN [l EXCEPT !.offset = AfterSkip(@)]
    ELSE IF Len(l.acc) - l.offset < ReadUInt32BE(l.acc, l.offset) THEN [l EXCEPT !.done = TRUE]
    ELSE Push([l EXCEPT !.frameLen = ReadUInt32BE(l.acc, l.offset),
                        !.frames = Append(@, Subarray(l.acc, l.offset,
                                                      l.offset + ReadUInt32BE(l.acc, l.offset)))],
              Reader(Subarray(l.acc, l.offset, l.offset + ReadUInt32BE(l.acc, l.offset))))

(* processPacket has returned (or thrown into the empty catch): offset += len *)
FrameReturned(l) == [l EXCEPT !.offset = @ + l.frameLen, !.frameLen = 0]

(* the reader once readBytes(packetSize) has moved it *)
Advanced(t, packetSize) ==
    [t EXCEPT !.off = IF packetSize < Len(t.buf) - t.off THEN @ + packetSize ELSE Len(t.buf),
              !.entered = TRUE]

(* the switch on one packet: a container re-enters processPacket on its    *)
(* nested body, a handler that throws ends the call in the catch           *)
SwitchOn(l, t, packetSize, packet) ==
    IF ~CanRead(packet, 0, 6) THEN Pop(l)
    ELSE IF IsContainer(ReadUInt16BE(packet, 4) % 32768)
         THEN IF NestedOk(packet)
              THEN Push([l EXCEPT !.stack[Len(l.stack)] = Advanced(t, packetSize)],
                        Reader(NestedPacket(packet)))
              ELSE Pop(l)
    ELSE IF /\ ReadUInt16BE(packet, 4) % 32768 = MessageType.Notify
            /\ ProcessNotifyMsg(St(<<>>, currentUserUuid), packet,
                                ReadUInt16BE(packet, 4) >= 32768).thrown
         THEN Pop(l)
    ELSE [l EXCEPT !.stack[Len(l.stack)] = Advanced(t, packetSize)]

(* the do-while of the innermost processPacket call: its condition once    *)
(* entered, then one iteration                                             *)
ProcessIteration(l) ==
    IF Top(l).entered /\ ~(Len(Top(l).buf) - Top(l).off > 0) THEN Pop(l)
    ELSE IF ~CanRead(Top(l).buf, Top(l).off, 4) THEN Pop(l)
    ELSE IF ReadUInt32BE(Top(l).buf, Top(l).off) < 6 THEN Pop(l)
    ELSE SwitchOn(l, Top(l), ReadUInt32BE(Top(l).buf, Top(l).off),
                  Subarray(Top(l).buf, Top(l).off,
                           IF ReadUInt32BE(Top(l).buf, Top(l).off) < Len(Top(l).buf) - Top(l).off
                           THEN Top(l).off + ReadUInt32BE(Top(l).buf, Top(l).off)
                           ELSE Len(Top(l).buf)))

(* payloads of the step runs: bytes that are no frame, frames back to      *)
(* back, the head of a frame, containers two and three deep with two       *)
(* packets in the body, a frame that fails inside a container, a nested    *)
(* packet with a size below 6 and one with a size beyond its buffer        *)
LoopPayloads ==
    { << 255, 0 >> \o ReturnFrame \o SampleFrame \o SubSeq(SampleFrame, 1, 9),
      << 0, 0, 0, 7 >> \o ReturnFrame \o ReturnFrame,
      Nest(2, ReturnFrame \o SampleFrame) \o ReturnFrame,
      Nest(3, SampleFrame \o Nest(1, ReturnFrame)),
      SiblingContainer \o NoDeltaInfoFrame \o TruncatedContainer,
      EnvelopeFrame(MessageType.Echo, MessageType.None, ReturnFrame \o << 0, 0, 0, 3, 0, 0 >>, FALSE),
      EnvelopeFrame(MessageType.Call, MessageType.None, ReturnFrame \o << 0, 0, 1, 0, 0, 3, 9 >>, FALSE),
      EnvelopeFrame(MessageType.FrameUp, MessageType.None, << 0, 0 >>, FALSE),
      << 0, 0, 0 >> \o Nest(1, SampleFrame \o ReturnFrame \o SampleFrame) \o << 0, 0, 0, 6 >>,
      Nest(2, Nest(1, ReturnFrame) \o Nest(1, SampleFrame)) \o SubSeq(ReturnFrame, 1, 3) }

InitLoop ==
    /\ running = TRUE
    /\ cap = 0
    /\ buffers = NoBuffers
    /\ hasProcessor = TRUE
    /\ devices = << Device(TRUE, FALSE) >>
    /\ openHandles = 1
    /\ currentUserUuid = LongZero
    /\ notices = 0
    /\ npackets = 0
    /\ ncalls = 1
    /\ lastFrames = <<>>
    /\ errors = 0
    /\ sink = <<>>
    /\ stream = [k \in Flows |-> <<>>]
    /\ emitted = [k \in Flows |-> <<>>]
    /\ skips = [k \in Flows |-> {}]
    /\ prevUuid = LongZero
    /\ lastError = "none"
    /\ depth = 0
    /\ quiet = [k \in Flows |-> 0]
    /\ selectedDevice = Undefined
    /\ live = FALSE
    /\ status = Null
    /\ pending = <<>>
    /\ \E payload \in LoopPayloads :
          loop = [NoLoop EXCEPT !.acc = payload, !.done = FALSE]
    /\ pc = "loop"

LoopUnchanged ==
    UNCHANGED << running, cap, buffers, hasProcessor, devices, openHandles, stream, emitted,
                 skips, ncalls, lastError, quiet, processorVars, serverVars, pending, pc >>

(* an iteration of the while loop of the callback *)
CallbackIteration ==
    /\ pc = "loop" /\ ~loop.done
    /\ loop.stack = <<>> /\ loop.frameLen = 0
    /\ loop' = ReassemblyIteration(loop)
    /\ LoopUnchanged

(* the callback after processPacket(frame) *)
CallbackResumes ==
    /\ pc = "loop" /\ ~loop.done
    /\ loop.stack = <<>> /\ loop.frameLen > 0
    /\ loop' = FrameReturned(loop)
    /\ LoopUnchanged

(* an iteration of the do-while of the innermost processPacket call *)
ProcessPacketIteration ==
    /\ pc = "loop" /\ ~loop.done
    /\ loop.stack # <<>>
    /\ loop' = ProcessIteration(loop)
    /\ LoopUnchanged

NextLoop == CallbackIteration \/ CallbackResumes \/ ProcessPacketIteration

(* the callback is synchronous code on one thread: while it has a next     *)
(* step it takes it                                                        *)
SpecLoop == InitLoop /\ [][NextLoop]_vars /\ WF_vars(NextLoop)

(* what one step does to the offsets *)
IterationAdvances ==
    /\ (loop.stack = <<>> /\ loop.frameLen = 0) =>
          \/ loop'.done /\ loop'.offset = loop.offset
          \/ loop'.offset = loop.offset + 1 /\ loop'.stack = <<>> /\ loop'.frameLen = 0
          \/ /\ Len(loop'.stack) = 1 /\ loop'.frameLen >= 6
             /\ loop'.frameLen <= Len(loop.acc) - loop.offset
    /\ (loop.stack = <<>> /\ loop.frameLen > 0) =>
          loop'.offset = loop.offset + loop.frameLen /\ loop'.offset <= Len(loop.acc)
    /\ loop.stack # <<>> =>
          \/ loop'.stack = SubSeq(loop.stack, 1, Len(loop.stack) - 1)
          \/ /\ Len(loop'.stack) \in { Len(loop.stack), Len(loop.stack) + 1 }
             /\ loop'.stack[Len(loop.stack)].buf = Top(loop).buf
             /\ loop'.stack[Len(loop.stack)].off >= Top(loop).off + 6
             /\ loop'.stack[Len(loop.stack)].off <= Len(Top(loop).buf)
             /\ Len(loop'.stack) > Len(loop.stack) =>
                   Len(Top(loop').buf) <= Len(Top(loop).buf) - 12

(* C40: processing one captured payload terminates: an iteration of the    *)
(* reassembly loop stops the loop or moves the offset on, by 1 or by a     *)
(* frame size of at least 6; an iteration of the processPacket loop        *)
(* returns or consumes at least 6 bytes of its input, a nested call        *)
(* working on a strictly shorter input; so the callback finishes.          *)
C40_CallbackTerminates ==
    /\ [][IterationAdvances]_vars
    /\ <>(loop.done)

(* C40 witness: the callback has finished on the container three deep     *)
(* that holds a container again: five calls of processPacket were in       *)
(* progress at once, the one frame was passed on and consumed whole        *)
C40_Witness ==
    /\ pc = "loop"
    /\ loop.done
    /\ loop.acc = Nest(3, SampleFrame \o Nest(1, ReturnFrame))
    /\ loop.offset = Len(loop.acc)
    /\ loop.height = 5
    /\ loop.frames = << loop.acc >>
    /\ loop.stack = <<>>

(* the steps arrive where the callback of the capture runs arrives: the    *)
(* same frames, the same offset, the same depth of re-entry                *)
StepsAgreeWithCallback ==
    (pc = "loop" /\ loop.done) =>
        /\ loop.stack = <<>> /\ loop.frameLen = 0
        /\ loop.offset = Reassemble(loop.acc).offset
        /\ loop.frames = [i \in 1..Len(Reassemble(loop.acc).frames) |->
                            Reassemble(loop.acc).frames[i].bytes]
        /\ loop.frames # <<>> =>
              loop.height
                 = ProcessFrames(St(<<>>, LongZero), Reassemble(loop.acc).frames, 1).maxDepth + 1

====
